---- MODULE Spec2Model ----
(***************************************************************************)
(* A model of the configuration reconciliation engine of the Gecko Lambda  *)
(* extension: the build freshness check (BuildUtils.needsRebuild), the     *)
(* discovery scans of LambdaDetector, and the validation and repair of the *)
(* private metadata block (Metadata.GeckoLambda) of template.yaml.         *)
(*                                                                         *)
(* The specifications share the variables:                                 *)
(*   SpecRebuild  one function directory's files and their modification    *)
(*                times, with needsRebuild applied to them;                *)
(*   Spec         a workspace of function directories and their manifests, *)
(*                with the scans, the validation pass and the repairs;     *)
(*   SpecManifest one manifest in full (function resource, environment,    *)
(*                triggers, metadata) with the operations that create,     *)
(*                read and rewrite it;                                     *)
(*   SpecNames    the function names the wizard accepts, the resource key  *)
(*                written for them and the identifier sam invokes;         *)
(*   SpecRun      one run of a function from the editor or the tree, with  *)
(*                its build step;                                          *)
(*   SpecMigration the one-time migration at activation;                   *)
(*   SpecLifecycle configuration and removal of functions in two           *)
(*                workspaces, starting from empty ones.                    *)
(***************************************************************************)
EXTENDS Naturals, Sequences, FiniteSets, TLC

\* The largest value of the clock that stamps modification times.
MaxClock == 2

VARIABLES
    clock,          \* the current time, as stamped by writes (mtime, lastModified)
    srcExists,      \* the source file (localConfig.sourceMainFile) is on disk
    srcMtime,       \* its modification time (0 when absent)
    buildDirExists, \* <lambdaDir>/build is on disk
    binExists,      \* <lambdaDir>/build/bootstrap is on disk
    binMtime,       \* its modification time (0 when absent)
    tplExists,      \* <lambdaDir>/template.yaml is on disk
    tplMtime,       \* its modification time (0 when absent)
    lastCheck,      \* the last needsRebuild call on the files as they are now
    ws,             \* the workspace: function directory name -> its content
    last,           \* the last operation on the workspace as it is now: a scan
                    \* with its result, or a repair with what it found and left
    doc,            \* one function directory's template.yaml, as parsed
    lastDoc,        \* the last operation on that template, with what it found
    other,          \* the workspace at a path that is not the configured one
    registry,       \* .gecko-lambda-config.json and its backup in the workspace
    run,            \* a run command under way: where it is and what it did
    built           \* the last successful build and the writes made since

fsVars == <<srcExists, srcMtime, buildDirExists, binExists, binMtime, tplExists, tplMtime>>
wsVars == <<ws, last>>
docVars == <<doc, lastDoc>>
auxVars == <<other, registry, run>>
vars == <<clock, srcExists, srcMtime, buildDirExists, binExists, binMtime,
          tplExists, tplMtime, lastCheck, ws, last, doc, lastDoc,
          other, registry, run, built>>

(***************************************************************************)
(* BuildFreshnessOracle: BuildUtils.needsRebuild                           *)
(***************************************************************************)

\* The path of the one source file of the function directory modelled here.
SourceMain == "/proj/fn/main.go"

\* localConfig.sourceMainFile as the callers may hand it over: the empty string
\* of a manifest without source information, or the source's path.
SourcePaths == {"", SourceMain}

\* The statSync call made to fail by the file system during a check, if any.
Faults == {"none", "statSource", "statBinary", "statTemplate"}

NoCheck == [called |-> FALSE]

\* fs.existsSync(localConfig.sourceMainFile)
SourceExistsSync(sourceMainFile) == sourceMainFile = SourceMain /\ srcExists

\* fs.statSync(p) raises when the file is absent or the file system fails.
StatSourceRaises(sourceMainFile, fault) ==
    fault = "statSource" \/ ~SourceExistsSync(sourceMainFile)
StatBinaryRaises(fault) == fault = "statBinary" \/ ~binExists
StatTemplateRaises(fault) == fault = "statTemplate" \/ ~tplExists

Return(v) == [value |-> v, raised |-> FALSE, threw |-> FALSE]
Raise == [value |-> FALSE, raised |-> TRUE, threw |-> TRUE]

\* Mutant: the manifest's modification time is not compared.
NeedsRebuildBodyNoManifest(sourceMainFile, fault) ==
    IF sourceMainFile = "" \/ ~SourceExistsSync(sourceMainFile) THEN Return(TRUE)
    ELSE IF StatSourceRaises(sourceMainFile, fault) THEN Raise
    ELSE IF ~buildDirExists THEN Return(TRUE)
    ELSE IF ~binExists THEN Return(TRUE)
    ELSE IF StatBinaryRaises(fault) THEN Raise
    ELSE Return(srcMtime > binMtime)

\* Mutant: the source is compared with >=, so equal times ask for a rebuild.
NeedsRebuildBodyNotOlder(sourceMainFile, fault) ==
    IF sourceMainFile = "" \/ ~SourceExistsSync(sourceMainFile) THEN Return(TRUE)
    ELSE IF StatSourceRaises(sourceMainFile, fault) THEN Raise
    ELSE IF ~buildDirExists THEN Return(TRUE)
    ELSE IF ~binExists THEN Return(TRUE)
    ELSE IF StatBinaryRaises(fault) THEN Raise
    ELSE IF tplExists /\ StatTemplateRaises(fault) THEN Raise
    ELSE IF tplExists /\ tplMtime > binMtime THEN Return(TRUE)
    ELSE Return(srcMtime >= binMtime)

\* Mutant: a missing artifact is taken as nothing to compare, not as stale.
NeedsRebuildBodyMissingBinaryOk(sourceMainFile, fault) ==
    IF sourceMainFile = "" \/ ~SourceExistsSync(sourceMainFile) THEN Return(TRUE)
    ELSE IF StatSourceRaises(sourceMainFile, fault) THEN Raise
    ELSE IF ~buildDirExists THEN Return(TRUE)
    ELSE IF ~binExists THEN Return(FALSE)
    ELSE IF StatBinaryRaises(fault) THEN Raise
    ELSE IF tplExists /\ StatTemplateRaises(fault) THEN Raise
    ELSE IF tplExists /\ tplMtime > binMtime THEN Return(TRUE)
    ELSE Return(srcMtime > binMtime)

\* Mutant: the source's existence is not checked before it is stat'ed.
NeedsRebuildBodyNoSourceCheck(sourceMainFile, fault) ==
    IF StatSourceRaises(sourceMainFile, fault) THEN Raise
    ELSE IF ~buildDirExists THEN Return(TRUE)
    ELSE IF ~binExists THEN Return(TRUE)
    ELSE IF StatBinaryRaises(fault) THEN Raise
    ELSE IF tplExists /\ StatTemplateRaises(fault) THEN Raise
    ELSE IF tplExists /\ tplMtime > binMtime THEN Return(TRUE)
    ELSE Return(srcMtime > binMtime)

\* Mutant: the manifest's time is compared with the source's, not with the
\* artifact's.
NeedsRebuildBodyManifestAgainstSource(sourceMainFile, fault) ==
    IF sourceMainFile = "" \/ ~SourceExistsSync(sourceMainFile) THEN Return(TRUE)
    ELSE IF StatSourceRaises(sourceMainFile, fault) THEN Raise
    ELSE IF ~buildDirExists THEN Return(TRUE)
    ELSE IF ~binExists THEN Return(TRUE)
    ELSE IF StatBinaryRaises(fault) THEN Raise
    ELSE IF tplExists /\ StatTemplateRaises(fault) THEN Raise
    ELSE IF tplExists /\ tplMtime > srcMtime THEN Return(TRUE)
    ELSE Return(srcMtime > binMtime)

\* The try block of needsRebuild: the checks in the order of the code.
NeedsRebuildBody(sourceMainFile, fault) ==
    IF sourceMainFile = "" \/ ~SourceExistsSync(sourceMainFile) THEN Return(TRUE)
    ELSE IF StatSourceRaises(sourceMainFile, fault) THEN Raise
    ELSE IF ~buildDirExists THEN Return(TRUE)
    ELSE IF ~binExists THEN Return(TRUE)
    ELSE IF StatBinaryRaises(fault) THEN Raise
    ELSE IF tplExists /\ StatTemplateRaises(fault) THEN Raise
    ELSE IF tplExists /\ tplMtime > binMtime THEN Return(TRUE)
    ELSE Return(srcMtime > binMtime)

\* Mutant: no catch clause, the error reaches the caller.
NeedsRebuildNoCatch(sourceMainFile, fault) == NeedsRebuildBody(sourceMainFile, fault)

\* needsRebuild: the try block, and the catch clause that answers true.
NeedsRebuild(sourceMainFile, fault) ==
    LET r == NeedsRebuildBody(sourceMainFile, fault)
    IN  IF r.raised THEN [value |-> TRUE, raised |-> TRUE, threw |-> FALSE] ELSE r

\* What is remembered of the builds: whether one has succeeded, the time of
\* the last one that did, and for the source and for the manifest whether it
\* has been written since, in the tick of the build ("same") or in a later
\* one ("later").
NoBuild == [done |-> FALSE, at |-> 0, src |-> "no", tpl |-> "no"]
WrittenSince == IF clock > built.at THEN "later" ELSE "same"

\* The clock advances between writes; two writes in one tick get equal times.
Tick ==
    /\ clock < MaxClock
    /\ clock' = clock + 1
    /\ UNCHANGED <<fsVars, lastCheck, wsVars, docVars, auxVars, built>>

\* The developer saves the source file.
WriteSource ==
    /\ srcExists' = TRUE
    /\ srcMtime' = clock
    /\ lastCheck' = NoCheck
    /\ built' = IF built.done THEN [built EXCEPT !.src = WrittenSince] ELSE built
    /\ UNCHANGED <<clock, buildDirExists, binExists, binMtime, tplExists, tplMtime, wsVars, docVars, auxVars>>

\* The developer deletes or moves the source file.
DeleteSource ==
    /\ srcExists
    /\ srcExists' = FALSE
    /\ srcMtime' = 0
    /\ lastCheck' = NoCheck
    /\ UNCHANGED built
    /\ UNCHANGED <<clock, buildDirExists, binExists, binMtime, tplExists, tplMtime, wsVars, docVars, auxVars>>

\* A write of template.yaml (fs.writeFileSync(templatePath, ...)).
WriteManifest ==
    /\ tplExists' = TRUE
    /\ tplMtime' = clock
    /\ lastCheck' = NoCheck
    /\ built' = IF built.done THEN [built EXCEPT !.tpl = WrittenSince] ELSE built
    /\ UNCHANGED <<clock, srcExists, srcMtime, buildDirExists, binExists, binMtime, wsVars, docVars, auxVars>>

\* template.yaml is removed from the function directory.
DeleteManifest ==
    /\ tplExists
    /\ tplExists' = FALSE
    /\ tplMtime' = 0
    /\ lastCheck' = NoCheck
    /\ UNCHANGED built
    /\ UNCHANGED <<clock, srcExists, srcMtime, buildDirExists, binExists, binMtime, wsVars, docVars, auxVars>>

\* The function directory is removed with all it holds (fs.rmSync, recursive).
RemoveLambdaDir ==
    /\ tplExists \/ buildDirExists
    /\ tplExists' = FALSE /\ tplMtime' = 0
    /\ buildDirExists' = FALSE
    /\ binExists' = FALSE /\ binMtime' = 0
    /\ lastCheck' = NoCheck
    /\ UNCHANGED built
    /\ UNCHANGED <<clock, srcExists, srcMtime, wsVars, docVars, auxVars>>

\* buildWithGo: creates build/, runs go build in the source directory; the
\* binary is (re)written when the compiler succeeds, left as it was when not.
BuildWithGo ==
    /\ buildDirExists' = TRUE
    /\ \E ok \in BOOLEAN :
          IF ok /\ srcExists
          THEN /\ binExists' = TRUE /\ binMtime' = clock
               /\ built' = [done |-> TRUE, at |-> clock, src |-> "no", tpl |-> "no"]
          ELSE UNCHANGED <<binExists, binMtime, built>>
    /\ lastCheck' = NoCheck
    /\ UNCHANGED <<clock, srcExists, srcMtime, tplExists, tplMtime, wsVars, docVars, auxVars>>

\* A caller (run, build, tree commands) asks whether a rebuild is needed.
CheckNeedsRebuild ==
    /\ \E sourceMainFile \in SourcePaths, fault \in Faults :
          lastCheck' = [called |-> TRUE, sourceMainFile |-> sourceMainFile,
                        fault |-> fault,
                        ret |-> NeedsRebuild(sourceMainFile, fault)]
    /\ UNCHANGED <<clock, fsVars, wsVars, docVars, auxVars, built>>

\* A function directory right after its configuration: source and manifest
\* on disk, an empty build directory, nothing built yet.
InitFiles ==
    /\ srcExists = TRUE /\ srcMtime = 0
    /\ buildDirExists = TRUE
    /\ binExists = FALSE /\ binMtime = 0
    /\ tplExists = TRUE /\ tplMtime = 0
    /\ lastCheck = NoCheck

InitRebuild ==
    /\ clock = 0
    /\ InitFiles
    /\ ws = <<>>
    /\ last = <<>>
    /\ doc = <<>>
    /\ lastDoc = <<>>
    /\ other = <<>>
    /\ registry = <<>>
    /\ run = <<>>
    /\ built = NoBuild

NextRebuild ==
    \/ Tick
    \/ WriteSource
    \/ DeleteSource
    \/ WriteManifest
    \/ DeleteManifest
    \/ RemoveLambdaDir
    \/ BuildWithGo
    \/ CheckNeedsRebuild

SpecRebuild == InitRebuild /\ [][NextRebuild]_vars

(***************************************************************************)
(* The workspace: function directories and their template.yaml             *)
(***************************************************************************)

\* The names of the subdirectories the workspace may hold.
FunctionDirs == {"orders", "billing"}

\* The source files the editor may have open (documentUri.fsPath).
SourceFiles == {"/proj/orders/main.go", "/proj/billing/main.go"}

\* path.dirname of a source file.
Dirname(sourceFile) ==
    IF sourceFile = "/proj/orders/main.go" THEN "/proj/orders"
    ELSE IF sourceFile = "/proj/orders/cmd/main.go" THEN "/proj/orders/cmd"
    ELSE IF sourceFile = "/proj/orders/cmd" THEN "/proj/orders"
    ELSE "/proj/billing"

\* A key absent from a YAML mapping: what JavaScript reads as undefined.
Undefined == "<undefined>"

\* obj.key in JavaScript: undefined when the mapping has no such key.
Field(obj, key) == IF key \in DOMAIN obj THEN obj[key] ELSE Undefined

\* JavaScript truthiness of a string-valued field: neither undefined nor "".
Truthy(v) == v # Undefined /\ v # ""

\* new Date().toISOString(): the clock as a string.
IsoString(t) == ToString(t)

\* Metadata.GeckoLambda of a parsed template: absent, or a mapping.
NoGecko == [present |-> FALSE]
GeckoBlock(sourceFile, sourceDir, eventType, lastModified, version) ==
    [present |-> TRUE, sourceFile |-> sourceFile, sourceDir |-> sourceDir,
     eventType |-> eventType, lastModified |-> lastModified, version |-> version]

\* What a function directory holds.  kind is
\*   "nodir"        no such subdirectory,
\*   "nomanifest"   a subdirectory without template.yaml,
\*   "unparseable"  a template.yaml that yaml.load rejects,
\*   "empty"        a template.yaml that yaml.load reads as undefined,
\*   "map"          a template.yaml that parses to a mapping: its GeckoLambda
\*                  block, whether Metadata has other entries, and the rest of
\*                  the document (Resources, Globals, Outputs, ...).
NoDir == [kind |-> "nodir"]
NoManifest == [kind |-> "nomanifest"]
Unparseable == [kind |-> "unparseable"]
EmptyDoc == [kind |-> "empty"]
Manifest(gecko, otherMeta, body) ==
    [kind |-> "map", gecko |-> gecko, otherMeta |-> otherMeta, body |-> body]

\* The function directories a workspace may hold when the extension starts:
\* hand-written and legacy manifests, and manifests of earlier sessions.
InitialContents ==
    {NoDir, NoManifest, Unparseable, EmptyDoc}
    \cup {Manifest(NoGecko, TRUE, "legacy")}
    \cup {Manifest(GeckoBlock(Undefined, Undefined, Undefined, Undefined, Undefined),
                   FALSE, "legacy")}
    \cup {Manifest(GeckoBlock("/proj/orders/main.go", Undefined, Undefined, Undefined,
                              Undefined),
                   FALSE, "legacy")}
    \cup {Manifest(GeckoBlock(sf, Dirname(sf), "sqs", IsoString(0), "2.0"),
                   FALSE, "created") : sf \in SourceFiles}

\* fs.readdirSync(workspacePath): the order is the file system's.
ScanOrders ==
    {o \in [1..Cardinality(FunctionDirs) -> FunctionDirs] :
        \A i, j \in DOMAIN o : i # j => o[i] # o[j]}

\* fs.existsSync(path.join(lambdaDirPath, "template.yaml"))
TemplateExists(c) == c.kind \in {"unparseable", "empty", "map"}

\* The GeckoLambda block is read without an exception and is truthy.
HasGecko(c) == c.kind = "map" /\ c.gecko.present

\* The LambdaConfig a scan builds for directory d from its block.
Null == [found |-> FALSE]
ConfigFound(d, sourceFile, sourceDir, eventType, lastModified) ==
    [found |-> TRUE, functionName |-> d, eventType |-> eventType,
     lastModified |-> lastModified, sourceFile |-> sourceFile, sourceDir |-> sourceDir]

\* Mutant: a block matches when it names any source file at all.
MatchesAnySource(c, sourceFile) == HasGecko(c) /\ Truthy(c.gecko.sourceFile)

\* metadata && metadata.sourceFile === sourceFile
Matches(c, sourceFile) == HasGecko(c) /\ c.gecko.sourceFile = sourceFile

\* Mutant: the template is parsed outside the inner try, so that a template
\* that fails to parse ends the scan in the outer catch, which returns null.
RECURSIVE ScanWorkspaceAborting(_, _, _, _, _)
ScanWorkspaceAborting(w, sourceFile, order, i, now) ==
    IF i > Len(order) THEN Null
    ELSE LET d == order[i]
             c == w[d]
         IN  IF c.kind \in {"unparseable", "empty"} THEN Null
             ELSE IF Matches(c, sourceFile)
             THEN ConfigFound(d, sourceFile,
                      IF Truthy(c.gecko.sourceDir) THEN c.gecko.sourceDir
                                                   ELSE Dirname(sourceFile),
                      IF Truthy(c.gecko.eventType) THEN c.gecko.eventType
                                                   ELSE "apigateway",
                      IF Truthy(c.gecko.lastModified) THEN c.gecko.lastModified
                                                      ELSE IsoString(now))
             ELSE ScanWorkspaceAborting(w, sourceFile, order, i + 1, now)

RECURSIVE ScanWorkspace(_, _, _, _, _)
\* The loop of getConfiguration over the workspace w from position i of the
\* listing: the first directory whose block names sourceFile, else null.  An
\* absent directory is not listed, a directory without template.yaml is
\* passed over, and a template that fails to parse is logged and passed over.
ScanWorkspace(w, sourceFile, order, i, now) ==
    IF i > Len(order) THEN Null
    ELSE LET d == order[i]
             c == w[d]
         IN  IF Matches(c, sourceFile)
             THEN ConfigFound(d, sourceFile,
                      IF Truthy(c.gecko.sourceDir) THEN c.gecko.sourceDir
                                                   ELSE Dirname(sourceFile),
                      IF Truthy(c.gecko.eventType) THEN c.gecko.eventType
                                                   ELSE "apigateway",
                      IF Truthy(c.gecko.lastModified) THEN c.gecko.lastModified
                                                      ELSE IsoString(now))
             ELSE ScanWorkspace(w, sourceFile, order, i + 1, now)

\* The scan of the workspace at the configured path (getGlobalWorkspacePath).
ScanFor(sourceFile, order, i, now) == ScanWorkspace(ws, sourceFile, order, i, now)

\* LambdaDetector.getConfiguration
GetConfiguration(sourceFile, order, now) == ScanFor(sourceFile, order, 1, now)

\* Mutant: a template without the block is listed with default values.
ListedAlways(c) == c.kind = "map"

\* if (metadata) of getAllLambdaFunctions: the template is listed.
Listed(c) == HasGecko(c)

RECURSIVE ListWorkspace(_, _, _, _)
\* The loop of getAllLambdaFunctions(workspacePath) over the workspace w
\* from position i of the listing.
ListWorkspace(w, order, i, now) ==
    IF i > Len(order) THEN <<>>
    ELSE LET d == order[i]
             c == w[d]
             rest == ListWorkspace(w, order, i + 1, now)
         IN  IF Listed(c)
             THEN <<ConfigFound(d,
                      IF HasGecko(c) /\ Truthy(c.gecko.sourceFile)
                          THEN c.gecko.sourceFile ELSE "",
                      IF HasGecko(c) /\ Truthy(c.gecko.sourceDir)
                          THEN c.gecko.sourceDir ELSE "",
                      IF HasGecko(c) /\ Truthy(c.gecko.eventType)
                          THEN c.gecko.eventType ELSE "apigateway",
                      IF HasGecko(c) /\ Truthy(c.gecko.lastModified)
                          THEN c.gecko.lastModified ELSE IsoString(now))>> \o rest
             ELSE rest

\* The listing of the workspace at the configured path.
ListFrom(order, i, now) == ListWorkspace(ws, order, i, now)

\* LambdaDetector.getAllLambdaFunctions
GetAllLambdaFunctions(order, now) == ListFrom(order, 1, now)

\* ConfigManager.validateUnifiedTemplate: a template that cannot be read
\* counts as existing without metadata.
ValidateUnifiedTemplate(c) ==
    [exists |-> TemplateExists(c), hasMetadata |-> HasGecko(c)]

\* TemplateManager.validateGeckoMetadata: the four required fields.
ValidateGeckoMetadata(c) ==
    IF ~HasGecko(c)
    THEN [hasMetadata |-> FALSE, isValid |-> FALSE, issues |-> {"no metadata"}]
    ELSE LET issues ==
                 {f \in {"sourceFile", "sourceDir", "eventType", "version"} :
                     ~Truthy(Field(c.gecko, f))}
         IN  [hasMetadata |-> TRUE, isValid |-> issues = {}, issues |-> issues]

\* ConfigManager.getAllLambdaDirectories: the listed directories that hold a
\* template.yaml, in the order of the listing.
RECURSIVE LambdaDirectoriesFrom(_, _)
LambdaDirectoriesFrom(order, i) ==
    IF i > Len(order) THEN <<>>
    ELSE (IF TemplateExists(ws[order[i]]) THEN <<order[i]>> ELSE <<>>)
            \o LambdaDirectoriesFrom(order, i + 1)
GetAllLambdaDirectories(order) == LambdaDirectoriesFrom(order, 1)

\* The loop of validateUnifiedSystem: the directories counted valid and the
\* issues reported.
ValidationReport(order) ==
    LET dirs == GetAllLambdaDirectories(order)
        ok(d) == ValidateUnifiedTemplate(ws[d]).exists
                     /\ ValidateUnifiedTemplate(ws[d]).hasMetadata
    IN  [validCount |-> Cardinality({i \in DOMAIN dirs : ok(dirs[i])}),
         invalidCount |-> Cardinality({i \in DOMAIN dirs : ~ok(dirs[i])}),
         issues |-> SelectSeq(dirs, LAMBDA d : ~ok(d))]

\* Mutant: template.Metadata is set to a new mapping on every write, so the
\* other entries of Metadata are lost.
UpdateGeckoMetadataResetsMetadata(c, sourceFile, sourceDir, eventType, now) ==
    IF c.kind # "map"
    THEN [content |-> c, threw |-> TRUE]
    ELSE [content |-> [c EXCEPT !.gecko = GeckoBlock(sourceFile, sourceDir, eventType,
                                                     IsoString(now), "2.0"),
                                !.otherMeta = FALSE],
          threw |-> FALSE]

\* Mutant: the time of the write is stored as the version, the version as the
\* time.
UpdateGeckoMetadataStampsVersion(c, sourceFile, sourceDir, eventType, now) ==
    IF c.kind # "map"
    THEN [content |-> c, threw |-> TRUE]
    ELSE [content |-> [c EXCEPT !.gecko = GeckoBlock(sourceFile, sourceDir, eventType,
                                                     "2.0", IsoString(now))],
          threw |-> FALSE]

\* ConfigManager.updateGeckoMetadata: reads the template, replaces the whole
\* GeckoLambda block (Metadata is created when absent, its other entries
\* stay), writes the document back.  A template that is missing,
\* unparseable or empty makes it throw before anything is written.
UpdateGeckoMetadata(c, sourceFile, sourceDir, eventType, now) ==
    IF c.kind # "map"
    THEN [content |-> c, threw |-> TRUE]
    ELSE [content |-> [c EXCEPT !.gecko = GeckoBlock(sourceFile, sourceDir, eventType,
                                                     IsoString(now), "2.0")],
          threw |-> FALSE]

\* Mutant: the test for metadata is negated, so that only a template that has
\* the block is rewritten.
RepairTemplateInverted(c, sourceFile, sourceDir, eventType, now) ==
    LET validation == ValidateUnifiedTemplate(c)
    IN  IF validation.exists /\ validation.hasMetadata
        THEN UpdateGeckoMetadata(c, sourceFile, sourceDir, eventType, now)
        ELSE IF ~validation.exists
        THEN [content |-> c, threw |-> TRUE]
        ELSE [content |-> c, threw |-> FALSE]

\* ConfigManager.repairTemplate: writes the block when the template exists
\* without one, throws when there is no template, else leaves it alone.
RepairTemplate(c, sourceFile, sourceDir, eventType, now) ==
    LET validation == ValidateUnifiedTemplate(c)
    IN  IF validation.exists /\ ~validation.hasMetadata
        THEN UpdateGeckoMetadata(c, sourceFile, sourceDir, eventType, now)
        ELSE IF ~validation.exists
        THEN [content |-> c, threw |-> TRUE]
        ELSE [content |-> c, threw |-> FALSE]

\* The values a caller of repairTemplate may know: a source file with its
\* directory and event type, or nothing (empty strings, the default type).
RepairValues ==
    {<<"/proj/orders/main.go", "/proj/orders", "sqs">>,
     <<"/proj/billing/main.go", "/proj/billing", "apigateway">>,
     <<"", "", "apigateway">>}

\* All four required fields of the block are there.
Valid(c) == ValidateGeckoMetadata(c).isValid

\* The template parses to a mapping that has no GeckoLambda block.
Unmetadataed(c) == c.kind = "map" /\ ~c.gecko.present

\* Two function directories, one with a complete block, one without a block.
TwoDirScenario(w) ==
    \E d1, d2 \in FunctionDirs :
        /\ d1 # d2 /\ FunctionDirs = {d1, d2}
        /\ Valid(w[d1]) /\ Unmetadataed(w[d2])

NoOp == [op |-> "none"]

\* The last operation was a repair that took a workspace of two function
\* directories, one complete and one without a block, and wrote the block.
ScenarioRepaired ==
    /\ last.op \in {"repairAll", "repairTemplate"}
    /\ TwoDirScenario(last.before)
    /\ last.op = "repairTemplate" => Unmetadataed(last.before[last.dir])

\* What a scan remembers of the operations before it.
AfterScenarioRepair ==
    IF last.op \in {"repairAll", "repairTemplate", "repairCurrent"}
    THEN ScenarioRepaired
    ELSE IF last.op = "none" THEN FALSE ELSE last.afterScenarioRepair

\* A caller asks for the configuration of a source file.
CallGetConfiguration ==
    /\ \E sourceFile \in SourceFiles \cup {""}, order \in ScanOrders :
          last' = [op |-> "getConfiguration", sourceFile |-> sourceFile,
                   order |-> order,
                   result |-> GetConfiguration(sourceFile, order, clock),
                   afterScenarioRepair |-> AfterScenarioRepair]
    /\ UNCHANGED <<clock, fsVars, lastCheck, docVars, auxVars, built, ws>>

\* A caller (the tree view, the workspace command) lists the functions.
CallGetAllLambdaFunctions ==
    /\ \E order \in ScanOrders :
          last' = [op |-> "listAll", order |-> order,
                   result |-> GetAllLambdaFunctions(order, clock),
                   afterScenarioRepair |-> AfterScenarioRepair]
    /\ UNCHANGED <<clock, fsVars, lastCheck, docVars, auxVars, built, ws>>

\* validateUnifiedSystem: nothing is counted for a workspace without
\* templates; issues come with the offer to repair all.
ValidateUnifiedSystem ==
    /\ \E order \in ScanOrders :
          LET report == ValidationReport(order)
          IN  last' = [op |-> "validate",
                       validCount |-> report.validCount,
                       invalidCount |-> report.invalidCount,
                       issues |-> report.issues,
                       afterScenarioRepair |-> AfterScenarioRepair]
    /\ UNCHANGED <<clock, fsVars, lastCheck, docVars, auxVars, built, ws>>

\* repairAllTemplates, started from the validation report that lists issues:
\* every template without metadata is repaired with the default values; a
\* repair that throws is logged and the loop goes on.
RepairAllTemplates ==
    /\ last.op = "validate" /\ last.invalidCount > 0
    /\ ws' = [d \in FunctionDirs |->
                 LET validation == ValidateUnifiedTemplate(ws[d])
                 IN  IF validation.exists /\ ~validation.hasMetadata
                     THEN RepairTemplate(ws[d], "", "", "apigateway", clock).content
                     ELSE ws[d]]
    /\ last' = [op |-> "repairAll", dir |-> "", values |-> <<"", "", "apigateway">>,
                before |-> ws, afterFirst |-> ws', times |-> 1, threw |-> FALSE]
    /\ UNCHANGED <<clock, fsVars, lastCheck, docVars, auxVars, built>>

\* ConfigManager.repairTemplate called on one function directory.  last
\* counts the calls made in a row on the same directory with the same values.
CallRepairTemplate ==
    /\ \E d \in FunctionDirs, v \in RepairValues :
          LET r == RepairTemplate(ws[d], v[1], v[2], v[3], clock)
              again == /\ last.op = "repairTemplate"
                       /\ last.dir = d /\ last.values = v
          IN  /\ ws' = [ws EXCEPT ![d] = r.content]
              /\ last' =
                    IF again
                    THEN [last EXCEPT !.times = 2, !.threw = r.threw]
                    ELSE [op |-> "repairTemplate", dir |-> d, values |-> v,
                          before |-> ws, afterFirst |-> ws', times |-> 1,
                          threw |-> r.threw]
    /\ UNCHANGED <<clock, fsVars, lastCheck, docVars, auxVars, built>>

\* repairCurrentTemplate: the function of the source file in the editor is
\* looked up and repaired with the values found.
RepairCurrentTemplate ==
    /\ \E sourceFile \in SourceFiles, order \in ScanOrders :
          LET config == GetConfiguration(sourceFile, order, clock)
          IN  /\ config.found
              /\ LET r == RepairTemplate(ws[config.functionName], config.sourceFile,
                                         config.sourceDir, config.eventType, clock)
                 IN  /\ ws' = [ws EXCEPT ![config.functionName] = r.content]
                     /\ last' = [op |-> "repairCurrent", dir |-> config.functionName,
                                 values |-> <<config.sourceFile, config.sourceDir,
                                              config.eventType>>,
                                 before |-> ws, afterFirst |-> ws', times |-> 1,
                                 threw |-> r.threw]
    /\ UNCHANGED <<clock, fsVars, lastCheck, docVars, auxVars, built>>

Init ==
    /\ clock = 0
    /\ InitFiles
    /\ ws \in [FunctionDirs -> InitialContents]
    /\ last = NoOp
    /\ doc = <<>>
    /\ lastDoc = <<>>
    /\ other = <<>>
    /\ registry = <<>>
    /\ run = <<>>
    /\ built = <<>>

Next ==
    \/ Tick
    \/ CallGetConfiguration
    \/ CallGetAllLambdaFunctions
    \/ ValidateUnifiedSystem
    \/ RepairAllTemplates
    \/ CallRepairTemplate
    \/ RepairCurrentTemplate

Spec == Init /\ [][Next]_vars

(***************************************************************************)
(* Claims about needsRebuild, checked under SpecRebuild.  lastCheck holds  *)
(* the call made on the files as they are in the same state.               *)
(***************************************************************************)

\* The injected file-system fault is raised: its statSync call is reached.
FaultRaised ==
    /\ lastCheck.called
    /\ lastCheck.sourceMainFile = SourceMain /\ srcExists
    /\ \/ lastCheck.fault = "statSource"
       \/ lastCheck.fault = "statBinary" /\ buildDirExists /\ binExists
       \/ lastCheck.fault = "statTemplate" /\ buildDirExists /\ binExists /\ tplExists

\* C1: needsRebuild answers true whenever the manifest's modification time is
\* strictly newer than the artifact's, also when the source is older than the
\* artifact.
C1_ManifestNewerNeedsRebuild ==
    (lastCheck.called /\ tplExists /\ binExists /\ tplMtime > binMtime)
        => (lastCheck.ret.value /\ ~lastCheck.ret.threw)

\* C1 witness: a check with the source older than the artifact and the manifest
\* touched after the build answered true.
C1_Witness ==
    /\ lastCheck.called /\ lastCheck.fault = "none"
    /\ lastCheck.sourceMainFile = SourceMain /\ srcExists
    /\ tplExists /\ binExists /\ tplMtime > binMtime /\ srcMtime < binMtime
    /\ lastCheck.ret.value

\* The artifact is strictly newer than both the source and the manifest.
ArtifactStrictlyNewest ==
    /\ srcExists /\ binExists /\ tplExists
    /\ binMtime > srcMtime /\ binMtime > tplMtime

\* C2 as stated: false only when the artifact exists and is strictly newer than
\* both source and manifest; true in every other combination, equal times and
\* an absent manifest included.
C2_Original ==
    (lastCheck.called /\ ~ArtifactStrictlyNewest) => lastCheck.ret.value

\* No check of the code asks for a rebuild: source and artifact are there, no
\* call failed, and neither the manifest (when present) nor the source is
\* strictly newer than the artifact.
UpToDate ==
    /\ lastCheck.sourceMainFile = SourceMain /\ srcExists
    /\ buildDirExists /\ binExists
    /\ ~FaultRaised
    /\ tplExists => tplMtime <= binMtime
    /\ srcMtime <= binMtime

\* C2 as amended: needsRebuild answers false exactly when the source and the
\* artifact exist, no file-system call failed, the manifest is absent or not
\* strictly newer than the artifact, and the source is not strictly newer than
\* the artifact (equal times count as up to date); otherwise true.
C2_FalseIffUpToDate ==
    lastCheck.called => (lastCheck.ret.value = ~UpToDate /\ ~lastCheck.ret.threw)

\* C2 witness: source, manifest and artifact carry the same time, and the check
\* answered false.
C2_Witness ==
    /\ lastCheck.called /\ ~lastCheck.ret.value
    /\ srcExists /\ binExists /\ tplExists
    /\ srcMtime = binMtime /\ tplMtime = binMtime

\* C3: needsRebuild answers true whenever the build directory or the artifact
\* is absent, whatever the times of source and manifest.
C3_MissingArtifactNeedsRebuild ==
    (lastCheck.called /\ (~buildDirExists \/ ~binExists))
        => (lastCheck.ret.value /\ ~lastCheck.ret.threw)

\* C3 witness: the build directory is there without an artifact (a failed
\* build), the source exists, and the check answered true.
C3_Witness ==
    /\ lastCheck.called /\ lastCheck.fault = "none"
    /\ lastCheck.sourceMainFile = SourceMain /\ srcExists
    /\ buildDirExists /\ ~binExists /\ tplExists /\ tplMtime < clock
    /\ lastCheck.ret.value

\* C4: with the source missing on disk, or its path empty, needsRebuild answers
\* true before any other file is looked at (no statSync is reached), also when
\* an artifact newer than the manifest exists.
C4_MissingSourceNeedsRebuild ==
    (lastCheck.called /\ (lastCheck.sourceMainFile = "" \/ ~srcExists))
        => (lastCheck.ret.value /\ ~lastCheck.ret.raised /\ ~lastCheck.ret.threw)

\* C4 witness: the source was deleted after a build, the artifact is newer than
\* the manifest, and the check answered true.
C4_Witness ==
    /\ lastCheck.called /\ lastCheck.sourceMainFile = SourceMain /\ ~srcExists
    /\ binExists /\ tplExists /\ binMtime > tplMtime
    /\ lastCheck.ret.value

\* C5: a file-system error raised during the check is caught in needsRebuild and
\* answered with true; it does not reach the caller and never yields false.
C5_ErrorsMeanRebuild ==
    FaultRaised => (lastCheck.ret.value /\ ~lastCheck.ret.threw)

\* C5 witness: statSync of the manifest failed where the check would otherwise
\* have answered false, and the answer was true.
C5_Witness ==
    /\ FaultRaised /\ lastCheck.fault = "statTemplate"
    /\ srcMtime < binMtime /\ tplMtime < binMtime
    /\ lastCheck.ret.value /\ lastCheck.ret.raised

(***************************************************************************)
(* Claims about discovery, validation and repair, checked under Spec.      *)
(* last holds the operation made on the workspace as it is in the same     *)
(* state.                                                                  *)
(***************************************************************************)

\* The manifest of a directory claims a source file: it parses, has the
\* private-metadata block, and the block's sourceFile is that very string.
Claims(c, sourceFile) ==
    c.kind = "map" /\ c.gecko.present /\ c.gecko.sourceFile = sourceFile

Claimants(sourceFile) == {d \in FunctionDirs : Claims(ws[d], sourceFile)}

\* C6: getConfiguration returns null for a source file no manifest claims, and
\* the claiming function (its directory name, with the queried path) when
\* exactly one manifest claims it.
C6_FindBySourceFile ==
    last.op = "getConfiguration" =>
        /\ Claimants(last.sourceFile) = {} => ~last.result.found
        /\ \A d \in FunctionDirs :
              Claimants(last.sourceFile) = {d} =>
                  /\ last.result.found
                  /\ last.result.functionName = d
                  /\ last.result.sourceFile = last.sourceFile

\* C6 witness: two manifests claim different source files, and the lookup of
\* one of them returned its function.
C6_Witness ==
    /\ last.op = "getConfiguration"
    /\ \E d, e \in FunctionDirs :
          /\ d # e
          /\ Claimants(last.sourceFile) = {d}
          /\ ws[e].kind = "map" /\ ws[e].gecko.present
          /\ ws[e].gecko.sourceFile \in SourceFiles
          /\ last.result.found /\ last.result.functionName = d

\* The entries of a listing that name directory d.
EntriesOf(list, d) == {i \in DOMAIN list : list[i].functionName = d}

\* C7: getAllLambdaFunctions returns exactly one entry for each subdirectory
\* whose manifest parses and has the private-metadata block, and none for a
\* subdirectory whose manifest lacks the block, does not parse, or is absent.
C7_ListAllOnePerBlock ==
    last.op = "listAll" =>
        \A d \in FunctionDirs :
            Cardinality(EntriesOf(last.result, d)) =
                IF ws[d].kind = "map" /\ ws[d].gecko.present THEN 1 ELSE 0

\* C7 witness: one directory has the block and the other a manifest without
\* it, and the listing has the one entry.
C7_Witness ==
    /\ last.op = "listAll"
    /\ Len(last.result) = 1
    /\ \E d \in FunctionDirs : ws[d].kind = "map" /\ ~ws[d].gecko.present

\* C8: with two function directories, one with complete metadata and one
\* whose manifest has no block, the listing has exactly one entry (the
\* complete one), the validation pass reports exactly one issue (the other
\* one), and a listing made after the repair of that manifest has two entries.
C8_TwoDirectoryScenario ==
    /\ (last.op = "listAll" /\ TwoDirScenario(ws)) =>
          /\ Len(last.result) = 1
          /\ Valid(ws[last.result[1].functionName])
    /\ (last.op = "validate" /\ TwoDirScenario(ws)) =>
          /\ last.validCount = 1 /\ last.invalidCount = 1
          /\ Len(last.issues) = 1 /\ Unmetadataed(ws[last.issues[1]])
    /\ (last.op = "listAll" /\ last.afterScenarioRepair) =>
          Len(last.result) = 2

\* C8 witness: the listing made after the repair in that scenario, with its
\* two entries.
C8_Witness ==
    /\ last.op = "listAll" /\ last.afterScenarioRepair
    /\ Len(last.result) = 2

\* C9 as stated: a repair (repairTemplate, or Repair All with its default
\* values) of a manifest that had no block leaves it valid, with sourceFile,
\* sourceDir, eventType and version all present for validateGeckoMetadata.
C9_RepairMakesValid ==
    \A d \in FunctionDirs :
        ( /\ last.op \in {"repairAll", "repairTemplate"}
          /\ last.op = "repairTemplate" => last.dir = d
          /\ Unmetadataed(last.before[d]) )
            => Valid(ws[d])

\* A manifest without the time of its last write.
StripTime(c) ==
    IF c.kind = "map" /\ c.gecko.present
    THEN [c EXCEPT !.gecko.lastModified = "-"]
    ELSE c

\* C10: repair is idempotent.  A second repairTemplate on the same directory
\* with the same values leaves every manifest as the first left it, the
\* lastModified stamp aside; and the write repair makes, made a second time on
\* its own output at a later time, changes nothing but that stamp.
C10_RepairIdempotent ==
    /\ (last.op = "repairTemplate" /\ last.times = 2) =>
          \A d \in FunctionDirs : StripTime(ws[d]) = StripTime(last.afterFirst[d])
    /\ \A d \in FunctionDirs, v \in RepairValues :
          ws[d].kind = "map" =>
              LET once == UpdateGeckoMetadata(ws[d], v[1], v[2], v[3], clock).content
                  twice == UpdateGeckoMetadata(once, v[1], v[2], v[3], clock + 1).content
              IN  StripTime(twice) = StripTime(once)

\* C10 witness: a manifest without a block was repaired, time passed, and the
\* same repair was made again.
C10_Witness ==
    /\ last.op = "repairTemplate" /\ last.times = 2
    /\ Unmetadataed(last.before[last.dir])
    /\ ws[last.dir].gecko.present
    /\ ws[last.dir].gecko.lastModified # IsoString(clock)

\* The block is there, and validateGeckoMetadata misses one of sourceFile,
\* sourceDir, eventType, version in it.
Incomplete(c) == c.kind = "map" /\ c.gecko.present /\ ~Valid(c)

\* C11 as stated: the validation pass over the workspace lists an issue for
\* every directory whose manifest is Incomplete, and counts none of them as
\* valid.
C11_IncompleteReported ==
    last.op = "validate" =>
        /\ \A d \in FunctionDirs :
              Incomplete(ws[d]) => \E i \in DOMAIN last.issues : last.issues[i] = d
        /\ last.validCount <= Cardinality({d \in FunctionDirs : Valid(ws[d])})

\* C12 as stated: a repair of an Incomplete manifest with a source file, its
\* directory and an event type writes the replacement block with those values
\* and version "2.0", and the manifest is Valid afterwards.
C12_RepairIncomplete ==
    ( /\ last.op \in {"repairTemplate", "repairCurrent"}
      /\ Incomplete(last.before[last.dir])
      /\ last.values[1] # "" /\ last.values[2] # "" )
        => /\ Valid(ws[last.dir])
           /\ ws[last.dir].gecko.sourceFile = last.values[1]
           /\ ws[last.dir].gecko.sourceDir = last.values[2]
           /\ ws[last.dir].gecko.eventType = last.values[3]
           /\ ws[last.dir].gecko.version = "2.0"

\* C13 as stated: getConfiguration returns a configuration only from a
\* manifest whose block has all of sourceFile, sourceDir, eventType, version.
C13_DiscoveryTrustsOnlyValid ==
    (last.op = "getConfiguration" /\ last.result.found)
        => Valid(ws[last.result.functionName])

(***************************************************************************)
(* ManifestStore: one template.yaml in full.  The parsed document keeps    *)
(* the GeckoLambda block, the other entries of Metadata, the function      *)
(* resource with its Properties, Globals.Function, Description, and the    *)
(* rest (Outputs, keys the extension does not read).                       *)
(***************************************************************************)

\* a || b on string values.
Or(a, b) == IF Truthy(a) THEN a ELSE b

\* The event types the configuration wizard offers.
EventTypes == {"apigateway", "s3", "dynamodb", "sqs"}

\* An entry of Properties.Events; a key with no value parses to null.
Trigger(name, type, startingPosition) ==
    [name |-> name, null |-> FALSE, Type |-> type,
     StartingPosition |-> startingPosition]
NullTrigger(name) == [name |-> name, null |-> TRUE]

\* Properties.Environment.Variables: absent, or a mapping of names to values.
NoVariables == [present |-> FALSE]
Variables(environment) == [present |-> TRUE, map |-> environment]

\* The first resource of Type AWS::Serverless::Function, if there is one.
NoResource == [present |-> FALSE]
FunctionResource(key, runtime, architecture, timeout, memorySize, variables, events) ==
    [present |-> TRUE, key |-> key, Runtime |-> runtime,
     Architecture |-> architecture, Timeout |-> timeout, MemorySize |-> memorySize,
     Variables |-> variables, Events |-> events]

\* Globals.Function: 0 stands for an absent number.
Globals(runtime, timeout, memorySize) ==
    [Runtime |-> runtime, Timeout |-> timeout, MemorySize |-> memorySize]
NoGlobals == Globals(Undefined, 0, 0)

\* template.Description
NoDescription == [present |-> FALSE]
Description(functionName, description) ==
    [present |-> TRUE, functionName |-> functionName, description |-> description]

\* `Lambda function for ${eventType} events`
DefaultDescription(eventType) == [default |-> TRUE, eventType |-> eventType]

FullManifest(gecko, otherMeta, resource, globals, description, body) ==
    [kind |-> "map", gecko |-> gecko, otherMeta |-> otherMeta,
     resource |-> resource, globals |-> globals, description |-> description,
     body |-> body]

\* Function names and resource keys are sequences of characters, so that
\* the string operations of the code act on them character by character.
\* The characters of the names of the function directories:
Chars(name) ==
    IF name = "orders" THEN <<"o", "r", "d", "e", "r", "s">>
    ELSE IF name = "billing" THEN <<"b", "i", "l", "l", "i", "n", "g">>
    ELSE IF name = "cmd" THEN <<"c", "m", "d">>
    ELSE IF name = "lambda-function"
    THEN <<"l", "a", "m", "b", "d", "a", "-", "f", "u", "n", "c", "t", "i", "o", "n">>
    ELSE <<>>

\* path.basename(lambdaDir): the name of the function directory.
LambdaDirName == Chars("orders")

\* The letters, for toUpperCase and toLowerCase of a character.
LowerCaseLetters ==
    <<"a", "b", "c", "d", "e", "f", "g", "h", "i", "j", "k", "l", "m",
      "n", "o", "p", "q", "r", "s", "t", "u", "v", "w", "x", "y", "z">>
UpperCaseLetters ==
    <<"A", "B", "C", "D", "E", "F", "G", "H", "I", "J", "K", "L", "M",
      "N", "O", "P", "Q", "R", "S", "T", "U", "V", "W", "X", "Y", "Z">>

\* String.prototype.toUpperCase and toLowerCase on one character.
ToUpperCaseChar(c) ==
    IF \E i \in DOMAIN LowerCaseLetters : LowerCaseLetters[i] = c
    THEN UpperCaseLetters[CHOOSE i \in DOMAIN LowerCaseLetters : LowerCaseLetters[i] = c]
    ELSE c
ToLowerCaseChar(c) ==
    IF \E i \in DOMAIN UpperCaseLetters : UpperCaseLetters[i] = c
    THEN LowerCaseLetters[CHOOSE i \in DOMAIN UpperCaseLetters : UpperCaseLetters[i] = c]
    ELSE c

\* String.prototype.toLowerCase
ToLowerCase(str) == [i \in 1..Len(str) |-> ToLowerCaseChar(str[i])]

\* \w of a regular expression: [A-Za-z0-9_]
IsWordChar(c) ==
    \/ \E i \in DOMAIN LowerCaseLetters : LowerCaseLetters[i] = c \/ UpperCaseLetters[i] = c
    \/ c \in {"0", "1", "2", "3", "4", "5", "6", "7", "8", "9"}
    \/ c = "_"

\* str.replace(/[-_](\w)/g, (_, letter) => letter.toUpperCase()) from
\* position i: a hyphen or underscore followed by a word character is
\* replaced, with that character, by the character in upper case, and the
\* search goes on after the two.
RECURSIVE ReplaceSeparators(_, _)
ReplaceSeparators(str, i) ==
    IF i > Len(str) THEN <<>>
    ELSE IF str[i] \in {"-", "_"} /\ i < Len(str) /\ IsWordChar(str[i + 1])
    THEN <<ToUpperCaseChar(str[i + 1])>> \o ReplaceSeparators(str, i + 2)
    ELSE <<str[i]>> \o ReplaceSeparators(str, i + 1)

\* .replace(/^\w/, (c) => c.toUpperCase())
CapitalizeFirst(str) ==
    IF Len(str) > 0 /\ IsWordChar(str[1])
    THEN <<ToUpperCaseChar(str[1])>> \o Tail(str)
    ELSE str

\* StringUtils.toPascalCase
ToPascalCase(str) == CapitalizeFirst(ReplaceSeparators(str, 1))

\* `${functionName}Function`
FunctionSuffix == <<"F", "u", "n", "c", "t", "i", "o", "n">>
ResourceKey(functionName) == functionName \o FunctionSuffix

\* key.replace(/Function$/, "")
RemoveFunctionSuffix(key) ==
    IF /\ Len(key) >= Len(FunctionSuffix)
       /\ SubSeq(key, Len(key) - Len(FunctionSuffix) + 1, Len(key)) = FunctionSuffix
    THEN SubSeq(key, 1, Len(key) - Len(FunctionSuffix))
    ELSE key

\* functionResourceKey.replace(/Function$/, "").toLowerCase()
KeyToFunctionName(key) == ToLowerCase(RemoveFunctionSuffix(key))

\* obj.key where a function name is read: an absent key reads as undefined,
\* which the || below treats like the empty name.
NameField(obj, key) == IF key \in DOMAIN obj THEN obj[key] ELSE <<>>

\* a || b on function names: the empty name is falsy.
OrName(a, b) == IF Len(a) = 0 THEN b ELSE a

\* The result of an operation that may throw.
Thrown(error) == [threw |-> TRUE, error |-> error]
Returned(value) == [threw |-> FALSE, value |-> value]

\* TemplateManager.readTemplate: the error it throws, if any.
ReadTemplateError(c) ==
    IF c.kind = "nomanifest" THEN "NotFound"
    ELSE IF c.kind = "unparseable" THEN "ParseError"
    ELSE "none"

\* detectEventTypeFromEvents reads firstEvent.Type: a null first entry makes
\* it throw.
DetectThrows(events) == Len(events) > 0 /\ events[1].null

\* TemplateManager.detectEventTypeFromEvents
DetectEventTypeFromEvents(events) ==
    IF Len(events) = 0 THEN "apigateway"
    ELSE LET eventType == events[1].Type
         IN  CASE eventType = "Api" -> "apigateway"
               [] eventType = "S3" -> "s3"
               [] eventType = "DynamoDB" -> "dynamodb"
               [] eventType = "SQS" -> "sqs"
               [] OTHER -> "apigateway"

\* fallbackSourceInfo of extractConfigFromTemplate: absent, or source fields.
NoFallback == [sourceMainFile |-> Undefined, sourceDir |-> Undefined]
Fallback(sourceMainFile, sourceDir) ==
    [sourceMainFile |-> sourceMainFile, sourceDir |-> sourceDir]

\* a || b on numbers, 0 being the falsy one.
OrNumber(a, b) == IF a # 0 THEN a ELSE b

\* {} as a mapping of variable names to values.
EmptyMap == [k \in {} |-> ""]

\* geckoMetadata?.environmentInfo || { lastUpdated: "", source: "manual" }
EnvMetadata(gecko) ==
    IF "environmentInfo" \in DOMAIN gecko
    THEN gecko.environmentInfo
    ELSE [lastUpdated |-> "", source |-> "manual"]

\* The LocalLambdaConfig built by extractConfigFromTemplate from a template
\* that has a function resource.  An absent GeckoLambda block reads as
\* undefined in every field (geckoMetadata?.x).
LocalLambdaConfig(c, fallback, now) ==
    LET geckoMetadata == c.gecko
        properties == c.resource
        globals == c.globals
        eventType == Or(Field(geckoMetadata, "eventType"),
                        DetectEventTypeFromEvents(properties.Events))
        envMetadata == EnvMetadata(geckoMetadata)
    IN  [functionName |->
             OrName(NameField(geckoMetadata, "functionName"),
                    OrName(KeyToFunctionName(properties.key), LambdaDirName)),
         sourceMainFile |->
             Or(Field(geckoMetadata, "sourceFile"), Or(fallback.sourceMainFile, "")),
         sourceDir |->
             Or(Field(geckoMetadata, "sourceDir"), Or(fallback.sourceDir, "")),
         eventType |-> eventType,
         lastModified |-> Or(Field(geckoMetadata, "lastModified"), IsoString(now)),
         runtime |->
             Or(Field(geckoMetadata, "runtime"),
                Or(properties.Runtime, Or(globals.Runtime, "provided.al2023"))),
         architecture |->
             Or(Field(geckoMetadata, "architecture"),
                Or(properties.Architecture, "arm64")),
         buildMethod |-> Or(Field(geckoMetadata, "buildMethod"), "direct"),
         environment |->
             [variables |-> IF properties.Variables.present
                            THEN properties.Variables.map ELSE EmptyMap,
              lastUpdated |-> envMetadata.lastUpdated,
              source |-> envMetadata.source,
              awsFunctionName |-> Field(envMetadata, "awsFunctionName")],
         template |->
             [timeout |-> OrNumber(properties.Timeout, OrNumber(globals.Timeout, 30)),
              memorySize |->
                  OrNumber(properties.MemorySize, OrNumber(globals.MemorySize, 128)),
              description |-> IF c.description.present
                              THEN c.description
                              ELSE DefaultDescription(eventType)]]

\* TemplateManager.extractConfigFromTemplate: throws what readTemplate throws,
\* a TypeError on an empty document (template is undefined), an Error when no
\* resource is a function, a TypeError when the event type has to be inferred
\* from a null first trigger; else returns the configuration.
ExtractConfigFromTemplate(c, fallback, now) ==
    IF ReadTemplateError(c) # "none" THEN Thrown(ReadTemplateError(c))
    ELSE IF c.kind = "empty" THEN Thrown("TypeError")
    ELSE IF ~c.resource.present THEN Thrown("MissingResource")
    ELSE IF ~Truthy(Field(c.gecko, "eventType")) /\ DetectThrows(c.resource.Events)
    THEN Thrown("TypeError")
    ELSE Returned(LocalLambdaConfig(c, fallback, now))

\* ConfigManager.extractSourceInfoFromTemplate: the fallback readLocalConfig
\* passes on; without a block the source fields are inferred as "".
ExtractSourceInfoFromTemplate(c) ==
    IF c.gecko.present
    THEN Fallback(Or(Field(c.gecko, "sourceFile"), ""),
                  Or(Field(c.gecko, "sourceDir"), ""))
    ELSE Fallback("", "")

\* ConfigManager.readLocalConfig: every error is thrown on, wrapped.
ReadLocalConfig(c, now) ==
    IF ~TemplateExists(c) THEN Thrown("NotFound")
    ELSE IF c.kind # "map" THEN Thrown(IF c.kind = "empty" THEN "TypeError" ELSE "ParseError")
    ELSE ExtractConfigFromTemplate(c, ExtractSourceInfoFromTemplate(c), now)

\* { ...existing, ...update }: the keys of both, the update's values first.
Spread(existing, update) ==
    [f \in DOMAIN existing \cup DOMAIN update |->
        IF f \in DOMAIN update THEN update[f] ELSE existing[f]]

\* template.Metadata.GeckoLambda || {}
BlockOrEmpty(gecko) == IF gecko.present THEN gecko ELSE [present |-> TRUE]

\* The error a writer meets before it writes: readTemplate's, or a TypeError
\* on an empty document (template is undefined).
WriterReadError(c) ==
    IF ReadTemplateError(c) # "none" THEN ReadTemplateError(c)
    ELSE IF c.kind = "empty" THEN "TypeError"
    ELSE "none"

\* TemplateManager.updateGeckoMetadata: the five fields are merged over the
\* existing block, whose other keys stay.
TemplateManagerUpdateGeckoMetadata(c, sourceFile, sourceDir, eventType, now) ==
    IF WriterReadError(c) # "none"
    THEN [content |-> c, threw |-> TRUE]
    ELSE [content |->
              [c EXCEPT !.gecko =
                  Spread(BlockOrEmpty(c.gecko),
                         GeckoBlock(sourceFile, sourceDir, eventType,
                                    IsoString(now), "2.0"))],
          threw |-> FALSE]

\* The document saveConfiguration writes when it starts from template = {}.
MetadataOnly(gecko) ==
    FullManifest(gecko, FALSE, NoResource, NoGlobals, NoDescription, "none")

\* LambdaDetector.saveConfiguration: a template that does not parse is logged
\* and replaced by a new document; an empty one makes the call throw.
SaveConfiguration(c, sourceFile, sourceDir, eventType, lastModified) ==
    LET block == GeckoBlock(sourceFile, sourceDir, eventType, lastModified, "2.0")
    IN  IF c.kind = "empty" THEN [content |-> c, threw |-> TRUE]
        ELSE IF c.kind = "map"
        THEN [content |-> [c EXCEPT !.gecko = block], threw |-> FALSE]
        ELSE [content |-> MetadataOnly(block), threw |-> FALSE]

\* environmentInfo as updateEnvironmentVariables writes it.
EnvironmentInfo(environment, awsFunctionName, now) ==
    [lastUpdated |-> IsoString(now),
     source |-> "aws",
     awsFunctionName |-> Or(awsFunctionName, "manual"),
     variableCount |-> Cardinality(DOMAIN environment)]

\* Mutant: the new variables are merged over the ones in the template.
UpdateEnvironmentVariablesMerging(c, environment, awsFunctionName, now) ==
    IF WriterReadError(c) # "none"
    THEN [content |-> c, threw |-> TRUE, error |-> WriterReadError(c)]
    ELSE IF ~c.resource.present
    THEN [content |-> c, threw |-> TRUE, error |-> "MissingResource"]
    ELSE [content |->
              [c EXCEPT !.resource.Variables =
                            Variables(IF c.resource.Variables.present
                                      THEN Spread(c.resource.Variables.map, environment)
                                      ELSE environment),
                        !.gecko =
                            Spread(BlockOrEmpty(c.gecko),
                                   [environmentInfo |->
                                        EnvironmentInfo(environment, awsFunctionName, now),
                                    lastModified |-> IsoString(now)])],
          threw |-> FALSE, error |-> "none"]

\* Mutant: the metadata is written before the function resource is looked
\* for.
UpdateEnvironmentVariablesWritesFirst(c, environment, awsFunctionName, now) ==
    IF WriterReadError(c) # "none"
    THEN [content |-> c, threw |-> TRUE, error |-> WriterReadError(c)]
    ELSE LET stamped ==
                 [c EXCEPT !.gecko =
                     Spread(BlockOrEmpty(c.gecko),
                            [environmentInfo |->
                                 EnvironmentInfo(environment, awsFunctionName, now),
                             lastModified |-> IsoString(now)])]
         IN  IF ~c.resource.present
             THEN [content |-> stamped, threw |-> TRUE, error |-> "MissingResource"]
             ELSE [content |-> [stamped EXCEPT !.resource.Variables =
                                                   Variables(environment)],
                   threw |-> FALSE, error |-> "none"]

\* TemplateManager.updateEnvironmentVariables: throws before any write when
\* the template cannot be read or has no function resource; else sets
\* Environment.Variables to the given mapping and records environmentInfo
\* and lastModified in the block, creating it when absent.
UpdateEnvironmentVariables(c, environment, awsFunctionName, now) ==
    IF WriterReadError(c) # "none"
    THEN [content |-> c, threw |-> TRUE, error |-> WriterReadError(c)]
    ELSE IF ~c.resource.present
    THEN [content |-> c, threw |-> TRUE, error |-> "MissingResource"]
    ELSE [content |->
              [c EXCEPT !.resource.Variables = Variables(environment),
                        !.gecko =
                            Spread(BlockOrEmpty(c.gecko),
                                   [environmentInfo |->
                                        EnvironmentInfo(environment, awsFunctionName, now),
                                    lastModified |-> IsoString(now)])],
          threw |-> FALSE, error |-> "none"]

\* Mutant: an event type without an entry gets the Api trigger.
GetEventConfigurationApiDefault(eventType) ==
    CASE eventType = "s3" -> <<Trigger("S3Event", "S3", Undefined)>>
      [] eventType = "dynamodb" ->
             <<Trigger("DynamoDBEvent", "DynamoDB", "TRIM_HORIZON")>>
      [] eventType = "sqs" -> <<Trigger("SQSEvent", "SQS", Undefined)>>
      [] OTHER -> <<Trigger("ApiEvent", "Api", Undefined)>>

\* TemplateManager.getEventConfiguration: configurations[eventType] ||
\* configurations.default
GetEventConfiguration(eventType) ==
    CASE eventType = "apigateway" -> <<Trigger("ApiEvent", "Api", Undefined)>>
      [] eventType = "s3" -> <<Trigger("S3Event", "S3", Undefined)>>
      [] eventType = "dynamodb" ->
             <<Trigger("DynamoDBEvent", "DynamoDB", "TRIM_HORIZON")>>
      [] eventType = "sqs" -> <<Trigger("SQSEvent", "SQS", Undefined)>>
      [] OTHER -> <<Trigger("DefaultEvent", "Schedule", Undefined)>>

\* TemplateManager.generateEnvironmentSection: no Environment for no variables.
GenerateEnvironmentSection(environment) ==
    IF Cardinality(DOMAIN environment) = 0 THEN NoVariables ELSE Variables(environment)

\* The block createTemplate embeds.
CreatedBlock(config, now) ==
    [present |-> TRUE,
     sourceFile |-> Or(config.sourceMainFile, ""),
     sourceDir |-> Or(config.sourceDir, ""),
     eventType |-> Or(config.eventType, "apigateway"),
     lastModified |-> IsoString(now),
     version |-> "2.0",
     buildMethod |-> Or(config.buildMethod, "direct"),
     architecture |-> Or(config.architecture, "arm64"),
     runtime |-> Or(config.runtime, "provided.al2023")]

\* TemplateManager.createTemplate: the document written over whatever
\* template.yaml the directory holds.
CreateTemplate(config, now) ==
    FullManifest(
        CreatedBlock(config, now),
        FALSE,
        FunctionResource(ResourceKey(ToPascalCase(config.functionName)),
                         Or(config.runtime, "provided.al2023"),
                         Or(config.architecture, "arm64"),
                         0, 0,
                         GenerateEnvironmentSection(config.environment),
                         GetEventConfiguration(config.eventType)),
        Globals(Or(config.runtime, "provided.al2023"), 30, 128),
        Description(config.functionName, DefaultDescription(config.eventType)),
        "outputs")

\* The event types createTemplate may be given: the wizard's, one without an
\* entry in getEventConfiguration, and none.
CreateEventTypes == EventTypes \cup {"schedule", Undefined}

\* The environments a caller may hand over.
Environments == {EmptyMap, [A |-> "1", B |-> "1"]}

\* awsFunctionName of updateEnvironmentVariables: absent, empty, or a name.
Labels == {Undefined, "", "prod-orders"}

\* sourceFile, sourceDir and eventType as a caller of the writers may know
\* them.
WriteValues ==
    {<<"/proj/orders/main.go", "/proj/orders", "sqs">>,
     <<"", "", "apigateway">>}

\* fallbackSourceInfo as a caller of extractConfigFromTemplate may pass it.
Fallbacks == {NoFallback, Fallback("/proj/orders/main.go", "/proj/orders")}

\* A hand-written template without a block: a function resource with its own
\* settings, variables and triggers, and another entry under Metadata.
LegacyManifest(events) ==
    FullManifest(NoGecko, TRUE,
                 FunctionResource(ResourceKey(ToPascalCase(LambdaDirName)), "provided.al2", "x86_64",
                                  10, 256, Variables([A |-> "0", C |-> "0"]), events),
                 NoGlobals, NoDescription, "custom")

\* The triggers of the hand-written templates.
LegacyEvents ==
    {<<>>,
     <<Trigger("Http", "Api", Undefined)>>,
     <<Trigger("Upload", "S3", Undefined)>>,
     <<Trigger("Stream", "DynamoDB", "LATEST")>>,
     <<Trigger("Queue", "SQS", Undefined), Trigger("Http", "Api", Undefined)>>,
     <<Trigger("Nightly", "Schedule", Undefined)>>,
     <<NullTrigger("Pending")>>}

\* A template whose block was completed by hand with a build method and a
\* runtime of its own.
HandEditedManifest ==
    [LegacyManifest(<<Trigger("Queue", "SQS", Undefined)>>) EXCEPT
        !.gecko = Spread(GeckoBlock("/proj/orders/main.go", "/proj/orders", "sqs",
                                    IsoString(0), "2.0"),
                         [buildMethod |-> "docker", runtime |-> "go1.x"])]

\* The template.yaml a function directory may hold at the start.
InitialDocs ==
    {NoManifest, Unparseable, EmptyDoc}
    \cup {LegacyManifest(events) : events \in LegacyEvents}
    \cup {[LegacyManifest(<<>>) EXCEPT !.resource = NoResource]}
    \cup {MetadataOnly(GeckoBlock("/proj/orders/main.go", "/proj/orders", "sqs",
                                  IsoString(0), "2.0"))}
    \cup {HandEditedManifest}

\* The configure command: createLambdaConfiguration hands createTemplate the
\* configuration of the source file and the chosen event type.
CallCreateTemplate ==
    /\ \E eventType \in CreateEventTypes :
          LET config == [functionName |-> LambdaDirName,
                         sourceMainFile |-> "/proj/orders/main.go",
                         sourceDir |-> "/proj/orders",
                         eventType |-> eventType,
                         runtime |-> "provided.al2023",
                         architecture |-> "arm64",
                         buildMethod |-> "direct",
                         environment |-> EmptyMap]
          IN  /\ doc' = CreateTemplate(config, clock)
              /\ lastDoc' = [op |-> "createTemplate", eventType |-> eventType]
    /\ UNCHANGED <<clock, fsVars, lastCheck, wsVars, auxVars, built>>

\* updateGeckoMetadata, of ConfigManager or of TemplateManager.
CallUpdateGeckoMetadata ==
    /\ \E via \in {"ConfigManager", "TemplateManager"}, v \in WriteValues :
          LET r == IF via = "ConfigManager"
                   THEN UpdateGeckoMetadata(doc, v[1], v[2], v[3], clock)
                   ELSE TemplateManagerUpdateGeckoMetadata(doc, v[1], v[2], v[3], clock)
          IN  /\ doc' = r.content
              /\ lastDoc' = [op |-> "updateGeckoMetadata", via |-> via, values |-> v,
                             before |-> doc, threw |-> r.threw]
    /\ UNCHANGED <<clock, fsVars, lastCheck, wsVars, auxVars, built>>

\* LambdaDetector.saveConfiguration with a configuration made now.
CallSaveConfiguration ==
    /\ \E v \in WriteValues :
          LET r == SaveConfiguration(doc, v[1], v[2], v[3], IsoString(clock))
          IN  /\ doc' = r.content
              /\ lastDoc' = [op |-> "saveConfiguration", via |-> "LambdaDetector",
                             values |-> v, before |-> doc, threw |-> r.threw]
    /\ UNCHANGED <<clock, fsVars, lastCheck, wsVars, auxVars, built>>

\* ConfigManager.updateEnvironmentVariables: TemplateManager's write, then
\* the configuration is read back, and what either throws is thrown on.
CallUpdateEnvironmentVariables ==
    /\ \E environment \in Environments, awsFunctionName \in Labels :
          LET via == "ConfigManager"
              r == UpdateEnvironmentVariables(doc, environment, awsFunctionName, clock)
              readBack == ReadLocalConfig(r.content, clock)
          IN  /\ doc' = r.content
              /\ lastDoc' = [op |-> "updateEnvironmentVariables", via |-> via,
                             environment |-> environment,
                             awsFunctionName |-> awsFunctionName,
                             before |-> doc, wrote |-> ~r.threw,
                             threw |-> r.threw \/ (via = "ConfigManager" /\ readBack.threw),
                             error |-> IF r.threw THEN r.error
                                       ELSE IF via = "ConfigManager" /\ readBack.threw
                                       THEN readBack.error ELSE "none"]
    /\ UNCHANGED <<clock, fsVars, lastCheck, wsVars, auxVars, built>>

\* TemplateManager.extractConfigFromTemplate called with or without fallback.
CallExtractConfigFromTemplate ==
    /\ \E fallback \in Fallbacks :
          lastDoc' = [op |-> "extractConfigFromTemplate", fallback |-> fallback,
                      before |-> doc,
                      result |-> ExtractConfigFromTemplate(doc, fallback, clock)]
    /\ UNCHANGED <<clock, fsVars, lastCheck, wsVars, auxVars, built, doc>>

\* ConfigManager.readLocalConfig, as the build, run and tree commands call it.
CallReadLocalConfig ==
    /\ lastDoc' = [op |-> "readLocalConfig",
                   fallback |-> IF doc.kind = "map"
                                THEN ExtractSourceInfoFromTemplate(doc) ELSE NoFallback,
                   before |-> doc,
                   result |-> ReadLocalConfig(doc, clock)]
    /\ UNCHANGED <<clock, fsVars, lastCheck, wsVars, auxVars, built, doc>>

InitManifest ==
    /\ clock = 0
    /\ InitFiles
    /\ ws = <<>>
    /\ last = <<>>
    /\ doc \in InitialDocs
    /\ lastDoc = NoOp
    /\ other = <<>>
    /\ registry = <<>>
    /\ run = <<>>
    /\ built = <<>>

NextManifest ==
    \/ Tick
    \/ CallCreateTemplate
    \/ CallUpdateGeckoMetadata
    \/ CallSaveConfiguration
    \/ CallUpdateEnvironmentVariables
    \/ CallExtractConfigFromTemplate
    \/ CallReadLocalConfig

SpecManifest == InitManifest /\ [][NextManifest]_vars

(***************************************************************************)
(* Claims about the manifest operations, checked under SpecManifest.       *)
(* lastDoc holds the last operation on the template as it is in the same   *)
(* state, with the template it found.                                      *)
(***************************************************************************)

\* The parsed document without its GeckoLambda block.
Frame(c) == [c EXCEPT !.gecko = NoGecko]

\* C14: a write of the metadata (updateGeckoMetadata of ConfigManager or of
\* TemplateManager, saveConfiguration) on a template that parses changes
\* nothing but the GeckoLambda block: the function resource, Globals,
\* Description, the other entries of Metadata and the rest of the document are
\* as before.  On an empty document the writers throw and write nothing.
C14_WriteMetadataFrame ==
    lastDoc.op \in {"updateGeckoMetadata", "saveConfiguration"} =>
        /\ lastDoc.before.kind = "map" =>
              /\ ~lastDoc.threw
              /\ doc.kind = "map"
              /\ Frame(doc) = Frame(lastDoc.before)
        /\ lastDoc.before.kind = "empty" => lastDoc.threw /\ doc = lastDoc.before

\* C14 witness: ConfigManager.updateGeckoMetadata changed the block of a
\* template that has a function resource with variables and another entry
\* under Metadata.
C14_Witness ==
    /\ lastDoc.op = "updateGeckoMetadata" /\ lastDoc.via = "ConfigManager"
    /\ lastDoc.before.kind = "map"
    /\ lastDoc.before.otherMeta
    /\ lastDoc.before.resource.present
    /\ lastDoc.before.resource.Variables.present
    /\ doc.gecko # lastDoc.before.gecko

\* A configuration without the time of the last write of the metadata.
ViewSansTime(config) == [config EXCEPT !.lastModified = "-"]

\* C15 as stated: on a valid manifest, reading the configuration, writing the
\* metadata with the sourceFile, sourceDir and eventType read, and reading
\* again gives the same configuration, lastModified aside, whichever
\* updateGeckoMetadata makes the write.
C15_ReadWriteRead ==
    (doc.kind = "map" /\ Valid(doc) /\ ~ReadLocalConfig(doc, clock).threw) =>
        LET first == ReadLocalConfig(doc, clock).value
            byConfigManager ==
                UpdateGeckoMetadata(doc, first.sourceMainFile, first.sourceDir,
                                    first.eventType, clock).content
            byTemplateManager ==
                TemplateManagerUpdateGeckoMetadata(doc, first.sourceMainFile,
                                                   first.sourceDir, first.eventType,
                                                   clock).content
        IN  /\ ViewSansTime(ReadLocalConfig(byConfigManager, clock).value)
                  = ViewSansTime(first)
            /\ ViewSansTime(ReadLocalConfig(byTemplateManager, clock).value)
                  = ViewSansTime(first)

\* C16: after updateEnvironmentVariables has written, the variables of the
\* function resource are exactly the ones given (no name of the previous set
\* is left unless it was given again), and variableCount is their number.
C16_EnvironmentReplaced ==
    (lastDoc.op = "updateEnvironmentVariables" /\ lastDoc.wrote) =>
        /\ doc.resource.Variables.present
        /\ DOMAIN doc.resource.Variables.map = DOMAIN lastDoc.environment
        /\ \A k \in DOMAIN lastDoc.environment :
              doc.resource.Variables.map[k] = lastDoc.environment[k]
        /\ doc.gecko.environmentInfo.variableCount
              = Cardinality(DOMAIN lastDoc.environment)

\* C16 witness: the template had variables of which one was not given again.
C16_Witness ==
    /\ lastDoc.op = "updateEnvironmentVariables" /\ lastDoc.wrote
    /\ lastDoc.before.resource.Variables.present
    /\ \E k \in DOMAIN lastDoc.before.resource.Variables.map :
          k \notin DOMAIN lastDoc.environment
    /\ \E k \in DOMAIN lastDoc.environment :
          k \in DOMAIN lastDoc.before.resource.Variables.map
    /\ doc.gecko.environmentInfo.variableCount = 2

\* C17 as stated: the source recorded by updateEnvironmentVariables is
\* "manual" when no function name is given, the value of a sync when one is,
\* and the name is stored as given.
C17_ProvenanceRecorded ==
    (lastDoc.op = "updateEnvironmentVariables" /\ lastDoc.wrote) =>
        LET info == doc.gecko.environmentInfo
        IN  IF Truthy(lastDoc.awsFunctionName)
            THEN info.source # "manual" /\ info.awsFunctionName = lastDoc.awsFunctionName
            ELSE info.source = "manual"

TriggerTypeFor(eventType) ==
    CASE eventType = "apigateway" -> "Api"
      [] eventType = "s3" -> "S3"
      [] eventType = "dynamodb" -> "DynamoDB"
      [] eventType = "sqs" -> "SQS"
      [] OTHER -> "Schedule"

\* The created template has the one trigger of the fixed mapping and a block
\* of version "2.0".
CreatedAsMapped ==
    /\ doc.kind = "map" /\ doc.resource.present
    /\ Len(doc.resource.Events) = 1
    /\ doc.resource.Events[1].Type = TriggerTypeFor(lastDoc.eventType)
    /\ lastDoc.eventType = "dynamodb" =>
          doc.resource.Events[1].StartingPosition = "TRIM_HORIZON"
    /\ doc.gecko.present /\ doc.gecko.version = "2.0"

\* C19 as stated: the mapping and the version, and for every created template
\* the stored event type is the one inferred from its trigger.
C19_Original ==
    lastDoc.op = "createTemplate" =>
        /\ CreatedAsMapped
        /\ doc.gecko.eventType = DetectEventTypeFromEvents(doc.resource.Events)

\* C19: createTemplate writes the trigger of the fixed mapping (apigateway to
\* Api, s3 to S3, dynamodb to DynamoDB from TRIM_HORIZON, sqs to SQS, anything
\* else to Schedule) and a block of version "2.0".  The stored event type and
\* the one inferred from the trigger agree for the four mapped types and for
\* an absent type; for any other type the block stores the type as given and
\* the inference gives "apigateway".
C19_CreateTemplateMapping ==
    lastDoc.op = "createTemplate" =>
        /\ CreatedAsMapped
        /\ IF lastDoc.eventType \in EventTypes \cup {Undefined, ""}
           THEN doc.gecko.eventType = DetectEventTypeFromEvents(doc.resource.Events)
           ELSE /\ doc.gecko.eventType = lastDoc.eventType
                /\ DetectEventTypeFromEvents(doc.resource.Events) = "apigateway"

\* C19 witness: a template created for an event type outside the mapping has
\* the Schedule trigger.
C19_Witness ==
    /\ lastDoc.op = "createTemplate"
    /\ lastDoc.eventType = "schedule"
    /\ doc.resource.Events[1].Type = "Schedule"
    /\ doc.gecko.eventType = "schedule"

\* C20 as stated: on a template that parses and has no block, the extraction
\* does not throw; the event type is the one of the first trigger's Type (Api,
\* S3, DynamoDB, SQS, else the default) and the source fields are the
\* fallback's, else empty.
C20_ExtractNeverThrows ==
    ( /\ lastDoc.op \in {"extractConfigFromTemplate", "readLocalConfig"}
      /\ doc.kind = "map" /\ ~doc.gecko.present )
        => /\ ~lastDoc.result.threw
           /\ lastDoc.result.value.sourceMainFile
                 = IF Truthy(lastDoc.fallback.sourceMainFile)
                   THEN lastDoc.fallback.sourceMainFile ELSE ""
           /\ lastDoc.result.value.sourceDir
                 = IF Truthy(lastDoc.fallback.sourceDir)
                   THEN lastDoc.fallback.sourceDir ELSE ""
           /\ LET events == doc.resource.Events
                  first == IF Len(events) = 0 THEN "none" ELSE events[1].Type
              IN  lastDoc.result.value.eventType =
                      CASE first = "Api" -> "apigateway"
                        [] first = "S3" -> "s3"
                        [] first = "DynamoDB" -> "dynamodb"
                        [] first = "SQS" -> "sqs"
                        [] OTHER -> "apigateway"

(***************************************************************************)
(* Claims about the builds and the writes that follow them, checked under  *)
(* SpecRebuild.                                                            *)
(***************************************************************************)

\* A check of the function's own source, with no file-system fault, made
\* after a successful build whose artifact and source are still there.
CheckedAfterBuild ==
    /\ lastCheck.called /\ lastCheck.fault = "none"
    /\ lastCheck.sourceMainFile = SourceMain
    /\ built.done /\ binExists /\ srcExists

\* C29 as stated: after a successful build whose artifact and source still
\* exist, needsRebuild is false exactly when neither the source nor the
\* manifest has been written since that build.
C29_Original ==
    CheckedAfterBuild
        => (~lastCheck.ret.value <=> (built.src = "no" /\ built.tpl = "no"))

\* C29 as amended: after a successful build whose artifact and source still
\* exist, needsRebuild is false exactly when neither the source nor a manifest
\* that is still there has been written at a time later than the build's; a
\* write stamped with the build's own time is not seen.
C29_FalseIffNoLaterWrite ==
    CheckedAfterBuild
        => (~lastCheck.ret.value
                <=> (built.src # "later" /\ ~(tplExists /\ built.tpl = "later")))

\* C29 witness: the manifest was written in a later tick than the build, the
\* source was not, and the check answered true.
C29_Witness ==
    /\ CheckedAfterBuild
    /\ tplExists /\ built.tpl = "later" /\ built.src = "no"
    /\ lastCheck.ret.value

(***************************************************************************)
(* Claims about templates that do not parse, checked under Spec.           *)
(***************************************************************************)

\* The function directories whose template.yaml yaml.load rejects, or reads
\* as undefined.
Offending == {d \in FunctionDirs : ws[d].kind \in {"unparseable", "empty"}}

\* The workspace as it would be without the function directory d.
Without(d) == [ws EXCEPT ![d] = NoDir]

\* C24: a template that cannot be parsed, or is empty, in one function
\* directory does not abort a scan: getConfiguration and getAllLambdaFunctions
\* return what they would return, with the same listing order, if that
\* directory were absent, wherever it comes in the order.
C24_OffendingDirectorySkipped ==
    \A d \in Offending :
        /\ last.op = "getConfiguration"
              => \E now \in 0..clock :
                    last.result
                        = ScanWorkspace(Without(d), last.sourceFile, last.order, 1, now)
        /\ last.op = "listAll"
              => \E now \in 0..clock :
                    last.result = ListWorkspace(Without(d), last.order, 1, now)

\* C24 witness: the first directory of the listing holds a template that does
\* not parse, and the scan found the source file in the directory after it.
C24_Witness ==
    /\ last.op = "getConfiguration" /\ last.result.found
    /\ last.order[1] \in Offending
    /\ last.result.functionName = last.order[2]

(***************************************************************************)
(* The function name from the wizard to the run: SpecNames                 *)
(***************************************************************************)

\* The longest function name typed into the wizard here.
MaxNameLen == 3

\* A lower-case letter, an upper-case letter, a digit, a hyphen and an
\* underscore: one character of each kind validateInput lets through.
NameChars == {"a", "A", "1", "-", "_"}

\* ConfigCommand.getFunctionName: the names validateInput accepts, non-empty
\* and matching /^[a-zA-Z0-9-_]+$/.
WizardNames == UNION {[1..n -> NameChars] : n \in 1..MaxNameLen}

\* createLambdaConfiguration: the template of a function configured under
\* the name typed into the wizard.
ConfigureName ==
    /\ \E functionName \in WizardNames, eventType \in EventTypes \ {"apigateway"} :
          LET config == [functionName |-> functionName,
                         sourceMainFile |-> "/proj/orders/main.go",
                         sourceDir |-> "/proj/orders",
                         eventType |-> eventType,
                         runtime |-> "provided.al2023",
                         architecture |-> "arm64",
                         buildMethod |-> "direct",
                         environment |-> EmptyMap]
          IN  /\ doc' = CreateTemplate(config, clock)
              /\ lastDoc' = [op |-> "createTemplate", functionName |-> functionName]
    /\ UNCHANGED <<clock, fsVars, lastCheck, wsVars, auxVars, built>>

\* runWithSAMInvoke on the configuration readLocalConfig returns: the logical
\* ID handed to 'sam local invoke'.
RunWithSAMInvoke ==
    /\ doc.kind = "map"
    /\ LET localConfig == ReadLocalConfig(doc, clock)
       IN  /\ ~localConfig.threw
           /\ lastDoc' = [op |-> "samInvoke",
                          functionName |-> localConfig.value.functionName,
                          invoked |->
                              ResourceKey(ToPascalCase(localConfig.value.functionName))]
    /\ UNCHANGED <<clock, fsVars, lastCheck, wsVars, auxVars, built, doc>>

InitNames ==
    /\ clock = 0
    /\ InitFiles
    /\ ws = <<>>
    /\ last = <<>>
    /\ doc = NoManifest
    /\ lastDoc = NoOp
    /\ other = <<>>
    /\ registry = <<>>
    /\ run = <<>>
    /\ built = <<>>

NextNames ==
    \/ ConfigureName
    \/ RunWithSAMInvoke

SpecNames == InitNames /\ [][NextNames]_vars

\* C27: for every function name the wizard accepts, the logical ID a run
\* invokes (toPascalCase of the functionName read back, plus "Function") is
\* the key of the function resource createTemplate wrote for that name.
C27_InvokedIdIsWrittenKey ==
    lastDoc.op = "samInvoke" => lastDoc.invoked = doc.resource.key

(***************************************************************************)
(* The run commands: SpecRun                                               *)
(***************************************************************************)

\* The two run paths, RunCommand.execute on the file in the editor and
\* TreeCommands.runLambdaFromTree on an item of the tree view, up to their
\* first await: readLocalConfig, then needsRebuild on
\* the files as they are; the build is awaited when it answers true.
StartRun ==
    /\ run.pc \in {"idle", "done", "failed"}
    /\ \E path \in {"editor", "tree"} :
          LET needsBuild == NeedsRebuild(SourceMain, "none").value
          IN  run' = [pc |-> IF needsBuild THEN "building" ELSE "checked",
                      path |-> path, needsBuild |-> needsBuild,
                      build |-> "none", started |-> "none"]
    /\ UNCHANGED <<clock, fsVars, lastCheck, wsVars, docVars, other, registry, built>>

\* The awaited build.  RunCommand.buildLambda lets the error of buildWithGo
\* through to the catch of execute, which logs it and ends the run.
\* TreeCommands.buildLambdaFromTree asks needsRebuild again and returns when
\* it answers false; it catches the error of buildWithGo itself, shows it and
\* returns, and runLambdaFromTree goes on.
BuildLambda ==
    /\ run.pc = "building"
    /\ IF run.path = "tree" /\ ~NeedsRebuild(SourceMain, "none").value
       THEN /\ run' = [run EXCEPT !.pc = "checked", !.build = "skipped"]
            /\ UNCHANGED <<fsVars, lastCheck, built>>
       ELSE /\ buildDirExists' = TRUE
            /\ \E ok \in BOOLEAN :
                  IF ok /\ srcExists
                  THEN /\ binExists' = TRUE /\ binMtime' = clock
                       /\ built' = [done |-> TRUE, at |-> clock,
                                    src |-> "no", tpl |-> "no"]
                       /\ run' = [run EXCEPT !.pc = "checked", !.build = "ok"]
                  ELSE /\ UNCHANGED <<binExists, binMtime, built>>
                       /\ run' = [run EXCEPT
                                     !.pc = IF run.path = "editor" THEN "failed"
                                                                   ELSE "checked",
                                     !.build = "failed"]
            /\ lastCheck' = NoCheck
            /\ UNCHANGED <<srcExists, srcMtime, tplExists, tplMtime>>
    /\ UNCHANGED <<clock, wsVars, docVars, other, registry>>

\* After the build: without Docker, or without event.json for a function
\* that is not behind the API gateway, the run ends; else 'sam local
\* start-api' or 'sam local invoke' is sent to the terminal.
StartFunction ==
    /\ run.pc = "checked"
    /\ \E dockerAvailable \in BOOLEAN, eventType \in {"apigateway", "sqs"},
          eventFileExists \in BOOLEAN :
          run' = [run EXCEPT
                     !.pc = "done",
                     !.started =
                         IF ~dockerAvailable THEN "none"
                         ELSE IF eventType = "apigateway" THEN "sam local start-api"
                         ELSE IF eventFileExists THEN "sam local invoke"
                         ELSE "none"]
    /\ UNCHANGED <<clock, fsVars, lastCheck, wsVars, docVars, other, registry, built>>

InitRun ==
    /\ clock = 0
    /\ InitFiles
    /\ ws = <<>>
    /\ last = <<>>
    /\ doc = <<>>
    /\ lastDoc = <<>>
    /\ other = <<>>
    /\ registry = <<>>
    /\ run = [pc |-> "idle"]
    /\ built = NoBuild

NextRun ==
    \/ Tick
    \/ WriteSource
    \/ DeleteSource
    \/ WriteManifest
    \/ StartRun
    \/ BuildLambda
    \/ StartFunction

SpecRun == InitRun /\ [][NextRun]_vars

\* C28: in both run paths, when needsRebuild answered true the build has
\* completed before the function is started, and when that build failed the
\* function is not started: neither 'sam local invoke' nor 'sam local
\* start-api' is issued.
C28_BuildBeforeStart ==
    (run.pc = "done" /\ run.started # "none" /\ run.needsBuild)
        => run.build = "ok"

(***************************************************************************)
(* The migration from the legacy global registry: SpecMigration            *)
(***************************************************************************)

\* .gecko-lambda-config.json or its backup: absent, or a file that holds the
\* configuration of a function (its source file, name and event type).
NoFile == [present |-> FALSE]
LegacyFile(sourceFile, functionName, eventType) ==
    [present |-> TRUE, sourceFile |-> sourceFile, functionName |-> functionName,
     eventType |-> eventType]

\* LambdaDetector.migrateFromGlobalConfig: the body is empty, the workspace
\* is left as it was.
MigrateFromGlobalConfig(w) == w

\* Mutant: the file is moved without the test that it exists.
CleanupGlobalConfigUnguarded(reg) == [legacy |-> NoFile, backup |-> reg.legacy]

\* ConfigManager.cleanupGlobalConfig: the legacy file, when it exists, is
\* renamed to .gecko-lambda-config.json.backup (over a backup already there).
CleanupGlobalConfig(reg) ==
    IF reg.legacy.present
    THEN [legacy |-> NoFile, backup |-> reg.legacy]
    ELSE reg

\* performUnifiedSystemMigration(force): run at activation and after a change
\* of the workspace path (force = false), or from the command (force = true).
PerformUnifiedSystemMigration ==
    /\ \E force \in BOOLEAN :
          LET globalConfigExists == registry.legacy.present
          IN  /\ IF globalConfigExists \/ force
                 THEN /\ ws' = MigrateFromGlobalConfig(ws)
                      /\ registry' = CleanupGlobalConfig(registry)
                 ELSE UNCHANGED <<ws, registry>>
              /\ last' = [op |-> "migrate", force |-> force,
                          before |-> [ws |-> ws, registry |-> registry],
                          threw |-> FALSE]
    /\ UNCHANGED <<clock, fsVars, lastCheck, docVars, other, run, built>>

\* The legacy files a workspace may hold when the extension starts.
LegacyFiles ==
    {NoFile, LegacyFile("/proj/orders/main.go", "orders", "sqs")}

InitMigration ==
    /\ clock = 0
    /\ InitFiles
    /\ ws \in [FunctionDirs -> InitialContents]
    /\ last = NoOp
    /\ doc = <<>>
    /\ lastDoc = <<>>
    /\ other = <<>>
    /\ registry \in {[legacy |-> f, backup |-> NoFile] : f \in LegacyFiles}
    /\ run = <<>>
    /\ built = <<>>

NextMigration ==
    \/ PerformUnifiedSystemMigration

SpecMigration == InitMigration /\ [][NextMigration]_vars

\* The last operation was a migration that found the legacy file.
MigratedLegacy == last.op = "migrate" /\ last.before.registry.legacy.present

\* C22: when the legacy registry file is present with an entry, after the
\* migration the legacy file is absent, the backup holds its content, and
\* the function of the entry is discoverable by its source file.
C22_MigrationCreatesManifest ==
    MigratedLegacy
        => /\ ~registry.legacy.present
           /\ registry.backup = last.before.registry.legacy
           /\ \A order \in ScanOrders :
                 GetConfiguration(last.before.registry.legacy.sourceFile,
                                  order, clock).found

\* The last operation was a migration that found no legacy file.
MigratedNothing == last.op = "migrate" /\ ~last.before.registry.legacy.present

LifecycleSources == {"/proj/orders/main.go", "/proj/orders/cmd/main.go"}

\* path.basename of the folders of the source files.
Basename(dir) ==
    IF dir = "/proj/orders" THEN "orders"
    ELSE IF dir = "/proj/orders/cmd" THEN "cmd"
    ELSE "billing"

\* name.replace(/[^a-zA-Z0-9-_]/g, "-")
ReplaceInvalid(str) ==
    [i \in 1..Len(str) |->
        IF IsWordChar(str[i]) \/ str[i] = "-" THEN str[i] ELSE "-"]

\* .replace(/^-+|-+$/g, ""): the hyphens at both ends are dropped.
RECURSIVE TrimHyphens(_)
TrimHyphens(str) ==
    IF Len(str) = 0 THEN str
    ELSE IF Head(str) = "-" THEN TrimHyphens(Tail(str))
    ELSE IF str[Len(str)] = "-" THEN TrimHyphens(SubSeq(str, 1, Len(str) - 1))
    ELSE str

\* The directory name spelled by a sequence of characters.
DirNamed(str) ==
    CHOOSE name \in FunctionDirs \cup {"cmd", "lambda-function"} : Chars(name) = str

\* LambdaDetector.sanitizeFunctionName
SanitizeFunctionName(name) ==
    LET sanitized == ToLowerCase(TrimHyphens(ReplaceInvalid(Chars(name))))
    IN  IF Len(sanitized) = 0 THEN "lambda-function" ELSE DirNamed(sanitized)

\* LambdaDetector.getFunctionNameFromPath: the folder of the source file, or
\* its parent when the folder is cmd.
GetFunctionNameFromPath(sourceFile) ==
    LET sourceDir == Dirname(sourceFile)
        currentFolder == Basename(sourceDir)
    IN  IF currentFolder = "cmd"
        THEN SanitizeFunctionName(Basename(Dirname(sourceDir)))
        ELSE SanitizeFunctionName(currentFolder)

\* LambdaDetector.removeConfiguration(sourceFile, workspacePath): the
\* function is looked up in the workspace at the configured path (global),
\* and the directory of that name is removed from the workspace at
\* workspacePath (target).  Nothing is thrown.
RemoveConfiguration(global, target, sourceFile, order, now) ==
    LET config == ScanWorkspace(global, sourceFile, order, 1, now)
    IN  IF config.found
        THEN [target EXCEPT ![config.functionName] = NoDir]
        ELSE target

\* Mutant: the function configured for the source file is left in place, only
\* the directory of the chosen name is cleaned.
HandleExistingConfigurationKeepsOld(w, sourceFile, functionName, order, now) ==
    [w EXCEPT ![functionName] = NoDir]

\* ConfigCommand.handleExistingConfiguration on the workspace at the
\* configured path: the function found for the source file is removed, its
\* directory too when it has another name, and then the directory of the
\* chosen name, whatever it holds.
HandleExistingConfiguration(w, sourceFile, functionName, order, now) ==
    LET existingConfig == ScanWorkspace(w, sourceFile, order, 1, now)
        removed == IF existingConfig.found
                   THEN RemoveConfiguration(w, w, sourceFile, order, now)
                   ELSE w
        cleaned == IF existingConfig.found /\ existingConfig.functionName # functionName
                   THEN [removed EXCEPT ![existingConfig.functionName] = NoDir]
                   ELSE removed
    IN  [cleaned EXCEPT ![functionName] = NoDir]

\* ConfigCommand.createLambdaConfiguration and RunCommand.createLambdaStructure:
\* saveConfiguration on whatever the directory of the name holds, then
\* createTemplate over it; what saveConfiguration throws ends the call.
CreateLambdaStructure(w, functionName, sourceFile, eventType, architecture, now) ==
    LET saved == SaveConfiguration(w[functionName], sourceFile, Dirname(sourceFile),
                                   eventType, IsoString(now))
        localConfig == [functionName |-> Chars(functionName),
                        sourceMainFile |-> sourceFile,
                        sourceDir |-> Dirname(sourceFile),
                        eventType |-> eventType,
                        runtime |-> "provided.al2023",
                        architecture |-> architecture,
                        buildMethod |-> "direct",
                        environment |-> EmptyMap]
    IN  IF saved.threw THEN w
        ELSE [w EXCEPT ![functionName] = CreateTemplate(localConfig, now)]

\* What the last operation on the workspaces was, and what it found.
Done(op, sourceFile, functionName, target, afterRemoveConfiguration) ==
    [op |-> op, sourceFile |-> sourceFile, functionName |-> functionName,
     target |-> target, before |-> ws, beforeOther |-> other,
     afterRemoveConfiguration |-> afterRemoveConfiguration]

\* ConfigCommand.runConfigurationWizard on the source file in the editor,
\* with the name and the event type the user settles on.
RunConfigurationWizard ==
    /\ \E sourceFile \in LifecycleSources, functionName \in FunctionDirs,
          eventType \in {"apigateway", "sqs"}, order \in ScanOrders :
          /\ ws' = CreateLambdaStructure(
                       HandleExistingConfiguration(ws, sourceFile, functionName,
                                                   order, clock),
                       functionName, sourceFile, eventType, "arm64", clock)
          /\ last' = Done("configure", sourceFile, functionName, "configured", ws)
    /\ UNCHANGED <<clock, fsVars, lastCheck, docVars, other, registry, run, built>>

\* RunCommand.execute on a source file without configuration, the user
\* choosing Auto-Configure: createAutoConfiguration, createLambdaStructure.
AutoConfigureLambda ==
    /\ \E sourceFile \in LifecycleSources, eventType \in {"apigateway", "sqs"},
          order \in ScanOrders :
          /\ ~GetConfiguration(sourceFile, order, clock).found
          /\ LET functionName == GetFunctionNameFromPath(sourceFile)
             IN  /\ ws' = CreateLambdaStructure(ws, functionName, sourceFile,
                                                eventType, "arm64", clock)
                 /\ last' = Done("autoConfigure", sourceFile, functionName,
                                 "configured", ws)
    /\ UNCHANGED <<clock, fsVars, lastCheck, docVars, other, registry, run, built>>

\* WorkspaceCommand.removeLambda: the workspace manager lists the functions
\* of the workspace at the path typed in, the user picks one and removes it:
\* removeConfiguration(config.sourceFile, workspacePath), then the directory
\* of the picked function.
RemoveLambda ==
    /\ \E target \in {"configured", "other"}, order \in ScanOrders :
          LET managed == IF target = "configured" THEN ws ELSE other
              lambdaConfigs == ListWorkspace(managed, order, 1, clock)
          IN  \E i \in DOMAIN lambdaConfigs :
                 LET config == lambdaConfigs[i]
                     unregistered == RemoveConfiguration(ws, managed, config.sourceFile,
                                                         order, clock)
                     removed == [unregistered EXCEPT ![config.functionName] = NoDir]
                 IN  /\ IF target = "configured"
                        THEN ws' = removed /\ UNCHANGED other
                        ELSE other' = removed /\ UNCHANGED ws
                     /\ last' = Done("remove", config.sourceFile, config.functionName,
                                     target, unregistered)
    /\ UNCHANGED <<clock, fsVars, lastCheck, docVars, registry, run, built>>

\* TreeCommands.removeLambda: the directory of the item picked in the tree
\* view, which lists the workspace at the configured path, is removed.
RemoveLambdaFromTree ==
    /\ \E order \in ScanOrders :
          LET lambdaConfigs == ListWorkspace(ws, order, 1, clock)
          IN  \E i \in DOMAIN lambdaConfigs :
                 /\ ws' = [ws EXCEPT ![lambdaConfigs[i].functionName] = NoDir]
                 /\ last' = Done("removeFromTree", lambdaConfigs[i].sourceFile,
                                 lambdaConfigs[i].functionName, "configured", ws)
    /\ UNCHANGED <<clock, fsVars, lastCheck, docVars, other, registry, run, built>>

\* setGlobalWorkspacePath: the setting now names the other path.
SetGlobalWorkspacePath ==
    /\ ws' = other
    /\ other' = ws
    /\ last' = Done("setWorkspacePath", "", "", "other", ws)
    /\ UNCHANGED <<clock, fsVars, lastCheck, docVars, registry, run, built>>

\* Both workspaces are empty.
InitLifecycle ==
    /\ clock = 0
    /\ InitFiles
    /\ ws = [d \in FunctionDirs |-> NoDir]
    /\ last = NoOp
    /\ doc = <<>>
    /\ lastDoc = <<>>
    /\ other = [d \in FunctionDirs |-> NoDir]
    /\ registry = <<>>
    /\ run = <<>>
    /\ built = <<>>

\* repairAllTemplates is offered by the validation only when it finds a
\* template without metadata, and no operation here writes one.
NextLifecycle ==
    \/ RunConfigurationWizard
    \/ AutoConfigureLambda
    \/ RemoveLambda
    \/ RemoveLambdaFromTree
    \/ SetGlobalWorkspacePath
    \/ CallRepairTemplate
    \/ RepairCurrentTemplate

SpecLifecycle == InitLifecycle /\ [][NextLifecycle]_vars

(***************************************************************************)
(* Claims about configuring and removing, checked under SpecLifecycle.     *)
(***************************************************************************)

\* The workspace removeConfiguration was pointed at by the last removal
\* through the workspace manager, before the call.
TargetBefore == IF last.target = "configured" THEN last.before ELSE last.beforeOther

\* The workspace at the configured path as removeConfiguration left it.
ConfiguredAfterUnregister ==
    IF last.target = "configured" THEN last.afterRemoveConfiguration ELSE last.before

\* The function directories of w whose manifest claims sourceFile.
ClaimantsIn(w, sourceFile) == {d \in FunctionDirs : Claims(w[d], sourceFile)}

\* C21: removeConfiguration(sourceFile, workspacePath) deletes the directory
\* of the function whose manifest claims sourceFile, after which
\* getConfiguration(sourceFile) returns null; when no manifest claims
\* sourceFile the workspace is left unchanged.
C21_UnregisterRemovesClaimant ==
    last.op = "remove"
        => /\ \A order \in ScanOrders :
                 ~ScanWorkspace(ConfiguredAfterUnregister, last.sourceFile,
                                order, 1, clock).found
           /\ \A d \in ClaimantsIn(TargetBefore, last.sourceFile) :
                 last.afterRemoveConfiguration[d] = NoDir
           /\ (ClaimantsIn(TargetBefore, last.sourceFile) = {}
                  => last.afterRemoveConfiguration = TargetBefore)

\* No two function directories of w hold manifests whose block names the
\* same non-empty source file.
OneClaimantEach(w) ==
    \A d1, d2 \in FunctionDirs :
        (d1 # d2 /\ HasGecko(w[d1]) /\ HasGecko(w[d2])
             /\ Truthy(Field(w[d1].gecko, "sourceFile")))
            => w[d1].gecko.sourceFile # w[d2].gecko.sourceFile

\* C25: after any sequence of configurations by the wizard,
\* auto-configurations, removals and repairs that starts from an empty
\* workspace, no two function directories hold manifests that name the same
\* non-empty source file.
C25_OneDirectoryPerSource ==
    OneClaimantEach(ws) /\ OneClaimantEach(other)

\* C25 witness: the wizard has configured, under a new name, a source file
\* that had a function under another name; the old directory is gone and the
\* new one claims the source file.
C25_Witness ==
    /\ last.op = "configure"
    /\ \E d \in FunctionDirs :
          /\ d # last.functionName
          /\ Claims(last.before[d], last.sourceFile)
          /\ ws[d] = NoDir
    /\ Claims(ws[last.functionName], last.sourceFile)

\* C26: configuring or auto-configuring a source file leaves the result of
\* getConfiguration for every other source file as it was, and the manifest
\* of that function too, also when the name derived or chosen is the name of
\* the other function.
C26_OtherSourcesUntouched ==
    last.op \in {"configure", "autoConfigure"}
        => \A sourceFile \in LifecycleSources \ {last.sourceFile}, order \in ScanOrders :
              LET before == ScanWorkspace(last.before, sourceFile, order, 1, clock)
                  after == ScanWorkspace(ws, sourceFile, order, 1, clock)
              IN  /\ after = before
                  /\ before.found
                        => ws[before.functionName] = last.before[before.functionName]

\* C30: removeConfiguration(sourceFile, workspacePath) deletes a directory
\* only if the manifest in that very directory claims sourceFile, also when
\* workspacePath is not the configured path that the lookup scans.
C30_UnregisterDeletesOnlyClaimant ==
    last.op = "remove"
        => \A d \in FunctionDirs :
              (TargetBefore[d] # NoDir /\ last.afterRemoveConfiguration[d] = NoDir)
                  => Claims(TargetBefore[d], last.sourceFile)

====
